---- MODULE Spec2Model ----
(***************************************************************************)
(* Cohort portal (src/app.py): per-session Read Cache over a shared remote *)
(* spreadsheet, the Worksheet Resolver, the position+2 Row Mutator and the *)
(* participant credential path, for two browser sessions.                  *)
(*                                                                         *)
(* Time is counted in minutes (CACHE_DURATION is in minutes in the code)    *)
(* and measured from the present: datetime.now() is 0 and a stored fetch   *)
(* time is 0 or negative.  A minute passing (Tick) moves every stored time *)
(* one minute into the past; a time CACHE_DURATION or more minutes old is  *)
(* kept at -CACHE_DURATION, since the code only asks whether the age is    *)
(* below CACHE_DURATION.                                                   *)
(* A worksheet is the sequence of its rows, row 1 being the header row; a  *)
(* row is the sequence of its cells; every cell is a string.               *)
(***************************************************************************)
EXTENDS Integers, Sequences, FiniteSets, TLC

\* ------------------------------------------------------------------ bounds
MaxRows == 3
MaxWrites == 2

\* --------------------------------------------------------------- constants
CACHE_DURATION == 5
MIN_PASSWORD_LEN == 6

Sessions == {"A", "B"}
Tables == {"Teams", "Participants_list"}

\* gspread's worksheet.get_all_records() either returns or raises:
\*   ok        the rows are returned
\*   api429    gspread.exceptions.APIError of an HTTP 429 response (its text
\*             contains "429")
\*   apiOther  APIError of another status, no "429" in its text
\*   exc       any exception that is not an APIError (connection reset, ...)
Outcomes == {"ok", "api429", "apiOther", "exc"}
IsAPIError(o) == o \in {"api429", "apiOther"}
\* faulty variant: the handler looks for another status code
Has409(o) == o \in {"api409"}
\* "429" in str(e)
Has429(o) == o \in {"api429"}

EmptyDict == [x \in {} |-> <<>>]
Range(f) == {f[i] : i \in DOMAIN f}
RemoveAt(seq, i) == [j \in 1..(Len(seq) - 1) |-> IF j < i THEN seq[j] ELSE seq[j + 1]]

\* ----------------------------------------------------------------- headers
Headers(sheet_name) ==
    CASE sheet_name = "Teams" -> <<"TeamName", "Description">>
      [] sheet_name = "Participants_list" ->
            <<"Name", "Email", "Preferred Name", "Experience Level", "Have GenAI Experience?",
              "Background", "Why do you want to join?", "What are your goals?", "Role Preference 1",
              "Role Preference 2", "Skills for Role", "Can participate daily?", "Best Time to Meet",
              "Has computer & internet?", "Comfortable with Tools", "Other Tools Known", "Anything else?",
              "Willing to mentor future cohorts?", "Status", "Team">>
      [] sheet_name = "Projects" ->
            <<"ProjectName", "AssignedTeam", "ProjectInfo", "CreatedAt", "CurrentPhase", "Progress">>
      [] sheet_name = "Updates" -> <<"UpdateID", "Timestamp", "Team", "Email", "Update", "Phase">>
      [] sheet_name = "Comments" -> <<"UpdateID", "Timestamp", "Email", "Comment">>
      [] sheet_name = "Likes" -> <<"UpdateID", "Email">>
      [] sheet_name = "ProjectProgress" ->
            <<"ProjectName", "Phase", "Status", "StartDate", "EndDate", "Comments">>
      [] OTHER -> <<>>

\* ------------------------------------------------------- gspread worksheet
\* worksheet.row_values(1)
row_values1(ws) == IF Len(ws) = 0 THEN <<>> ELSE ws[1]

Cell(row, i) == IF i <= Len(row) THEN row[i] ELSE ""

\* A dict is the sequence of its <<key, value>> pairs in insertion order.
Keys(d) == [j \in 1..Len(d) |-> d[j][1]]
HasKey(d, k) == \E j \in 1..Len(d) : d[j][1] = k
Get(d, k) == d[CHOOSE j \in 1..Len(d) : d[j][1] = k][2]
GetOr(d, k, default) == IF HasKey(d, k) THEN Get(d, k) ELSE default
Put(d, k, v) ==
    IF HasKey(d, k) THEN [j \in 1..Len(d) |-> IF d[j][1] = k THEN <<k, v>> ELSE d[j]]
    ELSE Append(d, <<k, v>>)

\* worksheet.get_all_records(): one dict per data row, keyed by the header
\* cells in header order; a short row is padded with "".
get_all_records(ws) ==
    IF Len(ws) <= 1 THEN <<>>
    ELSE [i \in 1..(Len(ws) - 1) |->
            [j \in 1..Len(ws[1]) |-> <<ws[1][j], Cell(ws[i + 1], j)>>]]

\* worksheet.append_row(values)
append_row(ws, values) == Append(ws, values)

\* -------------------------------------------------------------- Read Cache
\* get_cached_sheet_data(sheet_name, worksheet) on the session's two maps;
\* o is what worksheet.get_all_records() does if it is called.
\* Result: the maps after the call, the returned data or raised = TRUE, and
\* the number of remote reads made.
\* faulty variants: the age compared in seconds against the bare constant
\* (never below it at this resolution), and an inclusive comparison
CacheValidSeconds(cache, refresh, sheet_name, current_time) ==
    /\ sheet_name \in DOMAIN cache
    /\ sheet_name \in DOMAIN refresh
    /\ (current_time - refresh[sheet_name]) * 60 < CACHE_DURATION
CacheValidInclusive(cache, refresh, sheet_name, current_time) ==
    /\ sheet_name \in DOMAIN cache
    /\ sheet_name \in DOMAIN refresh
    /\ current_time - refresh[sheet_name] <= CACHE_DURATION

CacheValid(cache, refresh, sheet_name, current_time) ==
    /\ sheet_name \in DOMAIN cache
    /\ sheet_name \in DOMAIN refresh
    /\ current_time - refresh[sheet_name] < CACHE_DURATION

Hit(cache, refresh, data) ==
    [cache |-> cache, refresh |-> refresh, raised |-> FALSE, data |-> data, reads |-> 0]
Fetched(cache, refresh, sheet_name, current_time, data) ==
    [cache |-> (sheet_name :> data) @@ cache,
     refresh |-> (sheet_name :> current_time) @@ refresh,
     raised |-> FALSE, data |-> data, reads |-> 1]
\* faulty variant: the fallback renews the snapshot's fetch time (to the
\* present, 0 on the clock used here)
StaleRenewed(cache, refresh, sheet_name) ==
    [cache |-> cache, refresh |-> (sheet_name :> 0) @@ refresh, raised |-> FALSE,
     data |-> cache[sheet_name], reads |-> 1]
Stale(cache, refresh, sheet_name) ==
    [cache |-> cache, refresh |-> refresh, raised |-> FALSE, data |-> cache[sheet_name], reads |-> 1]
Raised(cache, refresh) ==
    [cache |-> cache, refresh |-> refresh, raised |-> TRUE, data |-> <<>>, reads |-> 1]

get_cached_sheet_data(cache, refresh, sheet_name, ws, current_time, o) ==
    IF CacheValid(cache, refresh, sheet_name, current_time)
    THEN Hit(cache, refresh, cache[sheet_name])
    ELSE IF o = "ok"
    THEN Fetched(cache, refresh, sheet_name, current_time, get_all_records(ws))
    ELSE IF IsAPIError(o)
    THEN IF Has429(o) /\ sheet_name \in DOMAIN cache
         THEN Stale(cache, refresh, sheet_name)
         ELSE Raised(cache, refresh)
    ELSE IF sheet_name \in DOMAIN cache
         THEN Stale(cache, refresh, sheet_name)
         ELSE Raised(cache, refresh)

\* faulty variants: a clear_cache that clears nothing, and one that clears
\* the maps of every session
ClearNothing(m, s) == m
ClearAll(m, s) == [x \in DOMAIN m |-> EmptyDict]

\* clear_cache() of session s: both maps of that session become {}
clear_cache(m, s) == [m EXCEPT ![s] = EmptyDict]

\* -------------------------------------------------------- Worksheet Resolver
\* faulty variants: a mismatching header row replaced with the data rows
\* kept, and the header check applied to every worksheet
get_sheet_keep_rows(ws, sheet_name) ==
    IF sheet_name = "Participants_list" THEN ws
    ELSE IF row_values1(ws) # Headers(sheet_name)
         THEN <<Headers(sheet_name)>> \o (IF Len(ws) = 0 THEN <<>> ELSE Tail(ws))
         ELSE ws
get_sheet_all(ws, sheet_name) ==
    IF row_values1(ws) # Headers(sheet_name) THEN append_row(<<>>, Headers(sheet_name)) ELSE ws
\* get_sheet(sheet_name) on an existing worksheet: the worksheet's rows after
\* the header check.
get_sheet(ws, sheet_name) ==
    IF sheet_name = "Participants_list" THEN ws
    ELSE IF row_values1(ws) # Headers(sheet_name)
         THEN append_row(<<>>, Headers(sheet_name))
         ELSE ws

\* get_sheet(sheet_name) on the spreadsheet sh (worksheet name -> rows): the
\* spreadsheet after the call.  A worksheet that is not found is created by
\* add_worksheet(rows=1) and given its header row by append_row.
\* faulty variant: the new worksheet is left without its header row
get_sheet_created_blank(sheet_name) == <<>>
get_sheet_created(sheet_name) == append_row(<<>>, Headers(sheet_name))
Resolve(sh, sheet_name) ==
    IF sheet_name \in DOMAIN sh
    THEN [sh EXCEPT ![sheet_name] = get_sheet(sh[sheet_name], sheet_name)]
    ELSE (sheet_name :> get_sheet_created(sheet_name)) @@ sh

\* ------------------------------------------------------------ credentials
ADMIN_EMAIL == "admin@x.com"
ADMIN_PASSWORD == "adminpw"
Emails == {"ada@x.com", "bob@x.com"}
Passwords == {"secret1", "secret2"}
TeamNames == {"T1", "T2", "T3"}

\* werkzeug generate_password_hash / check_password_hash: the hash is a string
\* that is not the password; a hash verifies exactly the password it was made of.
generate_password_hash(password) ==
    CASE password = "secret1" -> "pbkdf2:sha256$1"
      [] password = "secret2" -> "pbkdf2:sha256$2"
      [] password = ADMIN_PASSWORD -> "pbkdf2:sha256$3"
      [] OTHER -> "pbkdf2:sha256$0"
check_password_hash(pwhash, password) ==
    /\ password \in Passwords \cup {ADMIN_PASSWORD}
    /\ pwhash = generate_password_hash(password)

\* faulty variant: the admin credential is never recognised
check_admin_never(email, password) == FALSE
\* check_admin_login(email, password), the admin section being configured
check_admin_login(email, password) == email = ADMIN_EMAIL /\ password = ADMIN_PASSWORD

\* ------------------------------------------------------------------- state
\* datetime.now(): the present is the origin of the clock
now == 0

VARIABLES
    sheet,              \* the remote spreadsheet: worksheet name -> rows
    logged_in,          \* st.session_state.logged_in, per session
    user_role,          \* st.session_state.user_role ("" is None)
    user_email,         \* st.session_state.user_email ("" is None)
    sheet_data_cache,   \* st.session_state.sheet_data_cache, per session
    last_sheet_refresh, \* st.session_state.last_sheet_refresh, per session
    used,               \* the number of writing steps taken so far
    ev                  \* what the last step did (observation only)

vars == <<sheet, logged_in, user_role, user_email, sheet_data_cache, last_sheet_refresh, used, ev>>

\* The step just taken, as observed: the operation and its session, its
\* get_cached_sheet_data calls, its single-row mutations, whether it wrote to
\* the spreadsheet, whether it ended in clear_cache(), its credential checks,
\* and (post) whether it is the session's first run after a step of its own
\* that wrote and ended in clear_cache().
\* One get_cached_sheet_data call as observed: the table, what the remote read
\* does if made (o), the session's snapshot and its age before the call (had,
\* age), whether that snapshot differed from the remote rows (behind), the
\* result r (raised, reads) and how the returned data and the maps after the
\* call compare with the snapshot held before and with the remote rows.
CallLog(cache, refresh, sheet_name, ws, o, r) ==
    [t |-> sheet_name, o |-> o,
     had |-> sheet_name \in DOMAIN cache,
     age |-> IF sheet_name \in DOMAIN refresh THEN now - refresh[sheet_name] ELSE -1,
     behind |-> sheet_name \in DOMAIN cache /\ cache[sheet_name] # get_all_records(ws),
     raised |-> r.raised, reads |-> r.reads,
     gotPrev |-> ~r.raised /\ sheet_name \in DOMAIN cache /\ r.data = cache[sheet_name],
     gotRemote |-> ~r.raised /\ r.data = get_all_records(ws),
     kept |-> r.cache = cache /\ r.refresh = refresh,
     stored |-> /\ sheet_name \in DOMAIN r.cache /\ sheet_name \in DOMAIN r.refresh
                /\ r.cache[sheet_name] = get_all_records(ws)
                /\ r.refresh[sheet_name] = now]

Event(op, s, calls, muts, wrote, cleared, auth) ==
    [op |-> op, s |-> s, calls |-> calls, muts |-> muts, wrote |-> wrote,
     cleared |-> cleared, auth |-> auth, post |-> FALSE, mail |-> <<>>, run |-> <<>>]

\* faulty variant: every logged-in session is sent to the admin dashboard
RouteAnyRole(s) == IF ~logged_in[s] THEN "login" ELSE "admin"
\* main(): the page rendered for session s
Route(s) ==
    IF ~logged_in[s] THEN "login"
    ELSE IF user_role[s] = "admin" THEN "admin"
    ELSE IF user_role[s] = "participant" THEN "participant"
    ELSE "blank"

InitParticipants ==
    << <<"Name", "Email", "Preferred Name", "Status", "Team", "PasswordHash">>,
       <<"Ada L", "ada@x.com", "Ada", "Pending", "T1", "pbkdf2:sha256$1">>,
       <<"Bob B", "bob@x.com", "", "Pending", "", "">> >>

InitTeams == << Headers("Teams"), <<"T1", "d">>, <<"T2", "d">>, <<"T3", "d">> >>

\* The environment's budget: a step that writes to the spreadsheet is taken
\* only while the total stays within MaxWrites.
Spend(wrote) ==
    /\ used + (IF wrote THEN 1 ELSE 0) <= MaxWrites
    /\ used' = used + (IF wrote THEN 1 ELSE 0)

\* ---------------------------------------------------------- DataFrame reads
\* df[df[col] == val].index: the positions (0-based labels) of the matching
\* records, in order; First is .index[0] / .iloc[0], -1 when there is none.
Matches(data, col, val) == {i \in 1..Len(data) : GetOr(data[i], col, "") = val}
First(data, col, val) ==
    IF Matches(data, col, val) = {} THEN -1
    ELSE (CHOOSE i \in Matches(data, col, val) : \A j \in Matches(data, col, val) : i <= j) - 1
\* "col" in df.columns, for a frame built from a non-empty list of dicts
HasColumn(data, col) == \E i \in 1..Len(data) : HasKey(data[i], col)

\* ------------------------------------------------------------------ login
\* faulty variant: a listed email is enough, the stored hash is not looked at
LoginResultListed(cache, refresh, ws, email, password, o, r, k) ==
    [cache |-> r.cache, refresh |-> r.refresh,
     call |-> CallLog(cache, refresh, "Participants_list", ws, o, r),
     ok |-> ~r.raised /\ Len(r.data) > 0 /\ k >= 0]
\* check_participant_login(email, password): the boolean it returns, the
\* session's maps after its cached read, and that read as observed.
LoginResult(cache, refresh, ws, email, password, o, r, k) ==
    [cache |-> r.cache, refresh |-> r.refresh,
     call |-> CallLog(cache, refresh, "Participants_list", ws, o, r),
     ok |-> /\ ~r.raised
            /\ Len(r.data) > 0
            /\ HasColumn(r.data, "Email")
            /\ k >= 0
            /\ HasColumn(r.data, "PasswordHash")
            /\ GetOr(r.data[k + 1], "PasswordHash", "") # ""
            /\ check_password_hash(GetOr(r.data[k + 1], "PasswordHash", ""), password)]
LoginLookup(cache, refresh, ws, email, password, o, r) ==
    LoginResult(cache, refresh, ws, email, password, o, r, First(r.data, "Email", email))
check_participant_login(cache, refresh, ws, email, password, o) ==
    LoginLookup(cache, refresh, ws, email, password, o,
                get_cached_sheet_data(cache, refresh, "Participants_list",
                                      get_sheet(ws, "Participants_list"), now, o))

AuthLog(email, password, ok, role) == [email |-> email, password |-> password, ok |-> ok, role |-> role]

\* show_login_page, the Login button with both fields filled in: the admin
\* credential first; only when it fails, the participant check.  run: what
\* main() found before it rendered the page (observation only).
LoginRun(s, email, password, o, run) ==
    /\ Route(s) = "login"
    /\ IF check_admin_login(email, password)
       THEN /\ logged_in' = [logged_in EXCEPT ![s] = TRUE]
            /\ user_role' = [user_role EXCEPT ![s] = "admin"]
            /\ user_email' = [user_email EXCEPT ![s] = email]
            /\ ev' = [Event("login", s, <<>>, <<>>, FALSE, FALSE, <<AuthLog(email, password, TRUE, "admin")>>)
                        EXCEPT !.run = run]
            /\ UNCHANGED <<sheet, sheet_data_cache, last_sheet_refresh, used>>
       ELSE \E c \in {check_participant_login(sheet_data_cache[s], last_sheet_refresh[s],
                                                 Resolve(sheet, "Participants_list")["Participants_list"],
                                                 email, password, o)} :
               /\ sheet' = Resolve(sheet, "Participants_list")
               /\ sheet_data_cache' = [sheet_data_cache EXCEPT ![s] = c.cache]
               /\ last_sheet_refresh' = [last_sheet_refresh EXCEPT ![s] = c.refresh]
               /\ logged_in' = [logged_in EXCEPT ![s] = c.ok]
               /\ user_role' = [user_role EXCEPT ![s] = IF c.ok THEN "participant" ELSE @]
               /\ user_email' = [user_email EXCEPT ![s] = IF c.ok THEN email ELSE @]
               /\ UNCHANGED used
               /\ ev' = [Event("login", s, <<c.call>>, <<>>, FALSE, FALSE,
                               <<AuthLog(email, password, c.ok, "participant")>>)
                           EXCEPT !.run = run]
Login(s, email, password, o) == LoginRun(s, email, password, o, <<>>)

\* main(): the sidebar Logout button
Logout(s) ==
    /\ logged_in[s]
    /\ logged_in' = [logged_in EXCEPT ![s] = FALSE]
    /\ user_role' = [user_role EXCEPT ![s] = ""]
    /\ user_email' = [user_email EXCEPT ![s] = ""]
    /\ ev' = Event("logout", s, <<>>, <<>>, FALSE, FALSE, <<>>)
    /\ UNCHANGED <<sheet, sheet_data_cache, last_sheet_refresh, used>>

\* ------------------------------------------------------------- Row Mutator
Max(a, b) == IF a >= b THEN a ELSE b
Strip(x) == IF x = " " THEN "" ELSE x
SetCell(row, i, v) == [j \in 1..Max(Len(row), i) |-> IF j = i THEN v ELSE Cell(row, j)]
Overwrite(row, vals) == [j \in 1..Max(Len(row), Len(vals)) |-> IF j <= Len(vals) THEN vals[j] ELSE row[j]]

\* faulty variant: the header row not counted
RowOffsetNoHeader(k) == k + 1
\* the remote row number of the record at 0-based snapshot position k
RowOffset(k) == k + 2

\* faulty variant: the row number taken as a 0-based index
delete_rows0(ws, r) == IF r + 1 <= Len(ws) THEN RemoveAt(ws, r + 1) ELSE ws

\* worksheet.delete_rows(r): a row past the last one holds no data
delete_rows(ws, r) == IF r <= Len(ws) THEN RemoveAt(ws, r) ELSE ws

\* the cells of row i; a row below the last one is blank
RowAt(ws, i) == IF i <= Len(ws) THEN ws[i] ELSE <<>>

\* worksheet.update(values) / update('A<r>', values): the block of rows is
\* written from column A of row r on; cells outside the block are kept.
update_block(ws, r, block) ==
    [i \in 1..Max(Len(ws), r + Len(block) - 1) |->
        IF i >= r /\ i < r + Len(block)
        THEN Overwrite(RowAt(ws, i), block[i - r + 1])
        ELSE RowAt(ws, i)]

\* One single-row mutation as observed: the table, the kind, the 0-based
\* snapshot position k of the selected record, the selection (column, value),
\* the remote row number passed to gspread, the remote rows before the call,
\* the snapshot the position was computed from and whether the call raised.
MutLog(t, kind, k, col, val, row, ws, snapshot, raised) ==
    [t |-> t, kind |-> kind, k |-> k, col |-> col, val |-> val, row |-> row,
     ws |-> ws, snapshot |-> snapshot, raised |-> raised]

\* ----------------------------------------------------------- notifications
\* The result of a call: the boolean returned (ok), whether an exception
\* left the call (raised), and the recipients of the send attempts made.
\* gmail is the sender configuration in st.secrets: "ok" present, "missing"
\* no gmail section, "nosender" a blank sender_email or app_password,
\* "nosecrets" the lookup itself raises.  y is what the mail provider does
\* with a message handed to it (yagmail.SMTP(...).send): "ok" or "fail".
\* faulty variant: no except clause
TryNothing(r) == r
\* try: ... except Exception: ... return False
Try(r) == IF r.raised THEN [r EXCEPT !.raised = FALSE, !.ok = FALSE] ELSE r
\* faulty variant: a failed send is tried once more
send_email_retry(to_email, gmail, y) ==
    IF gmail # "ok" THEN [ok |-> FALSE, raised |-> FALSE, sends |-> <<>>]
    ELSE [ok |-> y = "ok", raised |-> FALSE,
          sends |-> IF y = "ok" THEN <<to_email>> ELSE <<to_email, to_email>>]
send_email_notification(to_email, gmail, y) ==
    Try(IF gmail = "nosecrets" THEN [ok |-> FALSE, raised |-> TRUE, sends |-> <<>>]
        ELSE IF gmail \in {"missing", "nosender"} THEN [ok |-> FALSE, raised |-> FALSE, sends |-> <<>>]
        ELSE Try([ok |-> y = "ok", raised |-> y # "ok", sends |-> <<to_email>>]))
\* notify_participant(email, participant_name, team_name, notification_type,
\* project_name); project_name "" is None.  The names only appear in the text.
notify_participant(email, notification_type, project_name, gmail, y) ==
    Try(IF notification_type \in {"team_assignment", "password_reset"}
           \/ (notification_type = "project_assignment" /\ Strip(project_name) # "")
        THEN send_email_notification(email, gmail, y)
        ELSE [ok |-> FALSE, raised |-> FALSE, sends |-> <<>>])
\* One notify_participant call as observed: its arguments, the environment
\* (gmail, y) and its result r.
NotifyLog(email, notification_type, project_name, gmail, y, r) ==
    [to |-> email, kind |-> notification_type, project |-> project_name, gmail |-> gmail, y |-> y,
     ok |-> r.ok, raised |-> r.raised, sends |-> r.sends]
\* one call, by any of the handlers of session s
Notify(s, email, notification_type, project_name, gmail, y) ==
    /\ ev' = [Event("notify", s, <<>>, <<>>, FALSE, FALSE, <<>>) EXCEPT !.mail =
                 <<NotifyLog(email, notification_type, project_name, gmail, y,
                             notify_participant(email, notification_type, project_name, gmail, y))>>]
    /\ UNCHANGED <<sheet, logged_in, user_role, user_email, sheet_data_cache, last_sheet_refresh, used>>

\* A batch: one notify_participant call for each address of the list to, in
\* order, whatever the earlier calls returned.  ys: what the mail provider
\* does for each address.
NotifyAll(to, notification_type, project_name, gmail, ys) ==
    [n \in 1..Len(to) |->
        NotifyLog(to[n], notification_type, project_name, gmail, ys[to[n]],
                  notify_participant(to[n], notification_type, project_name, gmail, ys[to[n]]))]
\* the batches the list to can get: every mail configuration and provider
Batches(to, notification_type, project_name) ==
    {NotifyAll(to, notification_type, project_name, gmail, ys) :
        gmail \in {"ok", "missing"}, ys \in [Range(to) -> {"ok", "fail"}]}
\* df[col].tolist() for a list of rows
Column(rows, col) == [n \in 1..Len(rows) |-> Get(rows[n], col)]
\* notifications_sent (ok) and failed_notifications (~ok): the names of the
\* batch, in order, whose call returned ok
Reported(names, mails, ok) ==
    LET hit == SelectSeq([n \in 1..Len(mails) |-> n], LAMBDA n : mails[n].ok = ok)
    IN [n \in 1..Len(hit) |-> names[hit[n]]]
\* One batch as observed: the frame it ran on, the team, the names picked in
\* the multiselect (team assignment only) and the two lists reported.
BatchLog(rows, team, selected, names, mails) ==
    [snapshot |-> rows, team |-> team, selected |-> selected, names |-> names,
     sent |-> Reported(names, mails, TRUE), failed |-> Reported(names, mails, FALSE)]

\* ------------------------------------------------------------- admin view
\* add_password_column(): the Participants rows after it
add_password_column(ws) ==
    IF \E j \in 1..Len(row_values1(ws)) : ws[1][j] = "PasswordHash" THEN ws
    ELSE LET num_cols == Len(ws[1]) + 1
         IN [i \in 1..Len(ws) |->
               IF i = 1 THEN Append(ws[1], "PasswordHash") ELSE SetCell(ws[i], num_cols, "")]

NormTeam(x) == IF x \in {"nan", "None", "null"} THEN "" ELSE Strip(x)

\* participants_df of show_admin_view as the list of its rows (dicts in
\* column order): all records cleaned, then the rows with a blank Email dropped.
CleanParticipant(d) ==
    LET d1 == Put(d, "Display Name",
                  IF Strip(Get(d, "Preferred Name")) # "" THEN Get(d, "Preferred Name") ELSE Get(d, "Name"))
        d2 == Put(d1, "Team", NormTeam(GetOr(d1, "Team", "")))
    IN Put(d2, "PasswordHash", GetOr(d2, "PasswordHash", ""))
IsListed(d) == Strip(Get(d, "Email")) # ""
ParticipantsDf(data) ==
    [columns |-> Keys(CleanParticipant(data[1])),
     rows |-> SelectSeq([i \in 1..Len(data) |-> CleanParticipant(data[i])], IsListed)]

\* [participants_df.columns.values.tolist()] + participants_df.values.tolist()
DfBlock(df) == <<df.columns>> \o [i \in 1..Len(df.rows) |-> [j \in 1..Len(df.rows[i]) |-> df.rows[i][j][2]]]

\* The load at the top of show_admin_view: Participants_list (after
\* add_password_column), then Teams; a raised read ends the view.
AdminLoadTeams(cache, refresh, oT, wsP, rP, cP, wsT, rT) ==
    [raised |-> rT.raised, cache |-> rT.cache, refresh |-> rT.refresh,
     calls |-> <<cP, CallLog(rP.cache, rP.refresh, "Teams", wsT, oT, rT)>>,
     wsP |-> wsP, wsT |-> wsT, participants_data |-> rP.data, teams_data |-> rT.data]
AdminLoadParticipants(cache, refresh, oP, oT, wsP, rP, wsT) ==
    IF rP.raised
    THEN [raised |-> TRUE, cache |-> rP.cache, refresh |-> rP.refresh,
          calls |-> <<CallLog(cache, refresh, "Participants_list", wsP, oP, rP)>>,
          wsP |-> wsP, wsT |-> sheet["Teams"], participants_data |-> <<>>, teams_data |-> <<>>]
    ELSE AdminLoadTeams(cache, refresh, oT, wsP, rP,
                        CallLog(cache, refresh, "Participants_list", wsP, oP, rP), wsT,
                        get_cached_sheet_data(rP.cache, rP.refresh, "Teams", wsT, now, oT))
AdminLoadSheets(cache, refresh, oP, oT, wsP) ==
    AdminLoadParticipants(cache, refresh, oP, oT, wsP,
                          get_cached_sheet_data(cache, refresh, "Participants_list", wsP, now, oP),
                          get_sheet(sheet["Teams"], "Teams"))
AdminLoad(s, oP, oT) ==
    AdminLoadSheets(sheet_data_cache[s], last_sheet_refresh[s], oP, oT,
                    add_password_column(get_sheet(sheet["Participants_list"], "Participants_list")))

\* The session's two maps after a run that left them as (cache, refresh)
\* and then did or did not call clear_cache()
SetMaps(s, cache, refresh, cleared) ==
    LET c == [sheet_data_cache EXCEPT ![s] = cache]
        r == [last_sheet_refresh EXCEPT ![s] = refresh]
    IN /\ sheet_data_cache' = IF cleared THEN clear_cache(c, s) ELSE c
       /\ last_sheet_refresh' = IF cleared THEN clear_cache(r, s) ELSE r

Loaded(s, ld, wsP, wsT, cleared) ==
    /\ sheet' = [sheet EXCEPT !["Participants_list"] = wsP, !["Teams"] = wsT]
    /\ SetMaps(s, ld.cache, ld.refresh, cleared)
    /\ UNCHANGED <<logged_in, user_role, user_email>>

\* A rerun of the admin view with no button pressed; ld is the run's load.
AdminView(s, ld) ==
    /\ Loaded(s, ld, ld.wsP, ld.wsT, FALSE)
    /\ Spend(ld.wsP # sheet["Participants_list"])
    /\ ev' = [Event("admin_view", s, ld.calls, <<>>, ld.wsP # sheet["Participants_list"], FALSE, <<>>)
                EXCEPT !.post = ev.s = s /\ ev.wrote /\ ev.cleared]

\* The Create Team form of the team tab. w: what teams_sheet.append_row does.
CreateTeam(s, ld, new_team_name, team_description, w) ==
    LET exists == Len(ld.teams_data) > 0 /\ Matches(ld.teams_data, "TeamName", new_team_name) # {}
        try == new_team_name # "" /\ team_description # "" /\ ~exists
        done == try /\ w = "ok"
    IN /\ ~ld.raised
       /\ Len(ld.wsT) <= MaxRows
       /\ (w # "ok") => try
       /\ Loaded(s, ld, ld.wsP,
                 IF done THEN append_row(ld.wsT, <<new_team_name, team_description>>) ELSE ld.wsT,
                 done)
       /\ Spend(done)
       /\ ev' = [Event("create_team", s, <<>>, <<>>, done, done, <<>>)
                   EXCEPT !.run = <<[fields |-> <<new_team_name, team_description>>]>>]

\* The Delete Team button (confirmed). w: "fail1" the Participants rewrite
\* raises, "fail2" delete_rows raises, "ok" neither does.
\* The rewrite: every participant of the team gets Team "", and the whole
\* frame, header included, is written back from cell A1.
TeamCleared(df, team_to_delete) ==
    [df EXCEPT !.rows = [i \in 1..Len(df.rows) |->
        IF Get(df.rows[i], "Team") = team_to_delete
        THEN Put(df.rows[i], "Team", "") ELSE df.rows[i]]]
DeleteTeamRows(s, ld, team_to_delete, w, k, wsP, wsT, wrote) ==
    /\ Loaded(s, ld, wsP, wsT, w = "ok")
    /\ Spend(wrote)
    /\ ev' = Event("delete_team", s, <<>>,
                   IF w # "fail1"
                   THEN <<MutLog("Teams", "delete", k, "TeamName", team_to_delete, RowOffset(k),
                                 ld.wsT, ld.teams_data, w # "ok")>>
                   ELSE <<>>,
                   wrote, w = "ok", <<>>)
DeleteTeamAt(s, ld, team_to_delete, w, hasDf, k) ==
    /\ (w = "fail1") => hasDf
    /\ DeleteTeamRows(s, ld, team_to_delete, w, k,
                      IF hasDf /\ w # "fail1"
                      THEN update_block(ld.wsP, 1,
                               DfBlock(TeamCleared(ParticipantsDf(ld.participants_data), team_to_delete)))
                      ELSE ld.wsP,
                      IF w = "ok" THEN delete_rows(ld.wsT, RowOffset(k)) ELSE ld.wsT,
                      (hasDf /\ w # "fail1") \/ w = "ok")
DeleteTeam(s, ld, team_to_delete, w) ==
    /\ ~ld.raised
    /\ Matches(ld.teams_data, "TeamName", team_to_delete) # {}
    /\ DeleteTeamAt(s, ld, team_to_delete, w, Len(ld.participants_data) > 0,
                    First(ld.teams_data, "TeamName", team_to_delete))

\* ------------------------------------------------------- the rest of a run
\* The cached reads ts, in order, of a run in which every remote read
\* succeeds: the session's maps after them.  A table that the spreadsheet sh
\* of the specification does not hold is not observed.
RECURSIVE LoadSeq(_, _, _, _)
LoadNext(r, sh, ts) == LoadSeq(r.cache, r.refresh, sh, ts)
LoadSeq(cache, refresh, sh, ts) ==
    IF ts = <<>> THEN [cache |-> cache, refresh |-> refresh]
    ELSE IF Head(ts) \notin DOMAIN sh THEN LoadSeq(cache, refresh, sh, Tail(ts))
    ELSE LoadNext(get_cached_sheet_data(cache, refresh, Head(ts),
                                        get_sheet(sh[Head(ts)], Head(ts)), now, "ok"),
                  sh, Tail(ts))

\* show_participant_view after its read v of Participants_list: Projects is
\* read next; the updates dashboard (Updates, Comments, Likes) is reached
\* only by a user who is listed and has a team.
ParticipantReads(data, email) ==
    IF Matches(data, "Email", email) = {} THEN <<"Projects">>
    ELSE IF GetOr(data[First(data, "Email", email) + 1], "Team", "") = "" THEN <<"Projects">>
    ELSE <<"Projects", "Updates", "Comments", "Likes">>
ParticipantRest(v, email) ==
    IF v.raised THEN [cache |-> v.cache, refresh |-> v.refresh]
    ELSE LoadSeq(v.cache, v.refresh, sheet, ParticipantReads(v.data, email))

\* ------------------------------------------------------ participant passwords
\* len(password)
StrLen(x) == CASE x = "" -> 0 [] x = "abc" -> 3 [] OTHER -> 7
\* headers.index(h)
IndexOf(hdr, h) == CHOOSE i \in 1..Len(hdr) : hdr[i] = h /\ \A j \in 1..(i - 1) : hdr[j] # h

\* The body shared by reset_participant_password and change_participant_password:
\* the records and the header row are read from the worksheet (the column
\* PasswordHash is added first when missing; the records are those read
\* before), the first record with the email is looked up (k, -1 if none) and
\* its row, rebuilt from the record with the new hash, is written at row k + 2.
\* w: what worksheet.update does.  Result: the boolean returned, the
\* worksheet's rows, and the lookup.
SetHashAt(ws, ws1, data, headers, k, password_hash, w) ==
    [ok |-> k >= 0 /\ w = "ok", k |-> k, tried |-> k >= 0, data |-> data,
     ws |-> IF k >= 0 /\ w = "ok"
            THEN update_block(ws1, RowOffset(k),
                     << [j \in 1..Len(headers) |->
                           IF j = IndexOf(headers, "PasswordHash") THEN password_hash
                           ELSE GetOr(data[k + 1], headers[j], "")] >>)
            ELSE ws1]
SetHashIn(ws, ws1, data, email, new_password, w) ==
    SetHashAt(ws, ws1, data, row_values1(ws1), First(data, "Email", email),
              generate_password_hash(new_password), w)
reset_participant_password(ws, email, new_password, w) ==
    SetHashIn(ws, add_password_column(ws), get_all_records(ws), email, new_password, w)

\* The checks of the Reset Password form before anything is called
\* faulty variant: the two fields only have to be filled in
reset_form_filled(new_password, confirm_password) == new_password # "" /\ confirm_password # ""
reset_form_ok(new_password, confirm_password) ==
    /\ new_password # "" /\ confirm_password # ""
    /\ new_password = confirm_password
    /\ StrLen(new_password) >= MIN_PASSWORD_LEN
\* The Reset Password form of the admin view's password tab.
\* w: what worksheet.update does.
ResetPasswordDone(s, ld, selected_email, new_password, confirm_password, w, r) ==
    /\ Loaded(s, ld, r.ws, ld.wsT, r.ok)
    /\ Spend(r.ws # sheet["Participants_list"])
    /\ ev' = [Event("reset_password", s, <<>>,
                   IF r.tried
                   THEN <<MutLog("Participants_list", "update", r.k, "Email", selected_email,
                                 RowOffset(r.k), ld.wsP, r.data, ~r.ok)>>
                   ELSE <<>>,
                   r.ws # sheet["Participants_list"], r.ok,
                   <<AuthLog(selected_email, new_password, r.ok, "reset")>>)
                EXCEPT !.run = <<[fields |-> <<new_password, confirm_password>>]>>]
ResetPassword(s, ld, selected_email, new_password, confirm_password, w) ==
    /\ ~ld.raised
    /\ Len(ld.participants_data) > 0
    /\ Matches(ParticipantsDf(ld.participants_data).rows, "Email", selected_email) # {}
    /\ IF ~reset_form_ok(new_password, confirm_password)
       THEN /\ w = "ok"
            /\ Loaded(s, ld, ld.wsP, ld.wsT, FALSE)
            /\ Spend(ld.wsP # sheet["Participants_list"])
            /\ ev' = [Event("reset_password", s, <<>>, <<>>, ld.wsP # sheet["Participants_list"], FALSE, <<>>)
                        EXCEPT !.run = <<[fields |-> <<new_password, confirm_password>>]>>]
       ELSE ResetPasswordDone(s, ld, selected_email, new_password, confirm_password, w,
                              reset_participant_password(ld.wsP, selected_email, new_password, w))

\* change_participant_password(email, current_password, new_password): the
\* current password is verified by check_participant_login (a cached read);
\* then the hash is replaced as in a reset.  c is that verification.
change_participant_password(ws, email, new_password, w, c) ==
    IF ~c.ok THEN [ok |-> FALSE, k |-> -1, tried |-> FALSE, data |-> <<>>, ws |-> ws]
    ELSE SetHashIn(ws, add_password_column(ws), get_all_records(ws), email, new_password, w)

\* A run of the participant view that writes nothing: the cached read v of
\* Participants_list and the reads after it, which leave the maps m; op and
\* run say what was submitted, if anything.
ParticipantViewAs(s, o, v, m, op, run) ==
    /\ sheet_data_cache' = [sheet_data_cache EXCEPT ![s] = m.cache]
    /\ last_sheet_refresh' = [last_sheet_refresh EXCEPT ![s] = m.refresh]
    /\ ev' = [Event(op, s,
                    <<CallLog(sheet_data_cache[s], last_sheet_refresh[s], "Participants_list",
                              sheet["Participants_list"], o, v)>>,
                    <<>>, FALSE, FALSE, <<>>)
                EXCEPT !.run = run]

\* The rest of show_participant_view after the sidebar form: the cached read
\* v of Participants_list and the reads after it, which leave the maps m.
ChangePasswordView(s, email, current_password, new_password, confirm_password, o2, c, r, v, m) ==
    /\ sheet' = [sheet EXCEPT !["Participants_list"] = r.ws]
    /\ sheet_data_cache' = [sheet_data_cache EXCEPT ![s] = m.cache]
    /\ last_sheet_refresh' = [last_sheet_refresh EXCEPT ![s] = m.refresh]
    /\ Spend(r.ws # sheet["Participants_list"])
    /\ ev' = [Event("change_password", s,
                   <<c.call, CallLog(c.cache, c.refresh, "Participants_list", r.ws, o2, v)>>,
                   IF r.tried
                   THEN <<MutLog("Participants_list", "update", r.k, "Email", email,
                                 RowOffset(r.k), sheet["Participants_list"], r.data, ~r.ok)>>
                   ELSE <<>>,
                   r.ws # sheet["Participants_list"], FALSE,
                   <<AuthLog(email, current_password, c.ok, "participant"),
                     AuthLog(email, new_password, r.ok, "change")>>)
                EXCEPT !.run = <<[fields |-> <<current_password, new_password, confirm_password>>]>>]
ChangePasswordRead(s, email, current_password, new_password, confirm_password, o2, c, r, v) ==
    ChangePasswordView(s, email, current_password, new_password, confirm_password, o2, c, r, v, ParticipantRest(v, email))
ChangePasswordChecked(s, email, current_password, new_password, confirm_password, o2, w, c, r) ==
    /\ (w # "ok") => r.tried
    /\ o2 \in (IF CacheValid(c.cache, c.refresh, "Participants_list", now) THEN {"ok"} ELSE Outcomes)
    /\ ChangePasswordRead(s, email, current_password, new_password, confirm_password, o2, c, r,
                          get_cached_sheet_data(c.cache, c.refresh, "Participants_list", r.ws, now, o2))
ChangePasswordLogin(s, email, current_password, new_password, confirm_password, o2, w, c) ==
    ChangePasswordChecked(s, email, current_password, new_password, confirm_password, o2, w, c,
                          change_participant_password(sheet["Participants_list"], email, new_password, w, c))
\* The Change Password form of the participant view's sidebar: the form's
\* checks, then change_participant_password; a rejected submission leaves
\* the rest of the view to run.
ChangePassword(s, current_password, new_password, confirm_password, o, o2, w) ==
    /\ Route(s) = "participant"
    /\ IF current_password # "" /\ reset_form_ok(new_password, confirm_password)
       THEN ChangePasswordLogin(s, user_email[s], current_password, new_password, confirm_password, o2, w,
                                check_participant_login(sheet_data_cache[s], last_sheet_refresh[s],
                                                        sheet["Participants_list"], user_email[s],
                                                        current_password, o))
       ELSE /\ w = "ok" /\ o2 = "ok"
            /\ \E v \in {get_cached_sheet_data(sheet_data_cache[s], last_sheet_refresh[s],
                                                "Participants_list",
                                                get_sheet(sheet["Participants_list"], "Participants_list"),
                                                now, o)} :
                 ParticipantViewAs(s, o, v, ParticipantRest(v, user_email[s]), "change_password",
                                   <<[fields |-> <<current_password, new_password, confirm_password>>]>>)
            /\ UNCHANGED <<sheet, used>>
    /\ UNCHANGED <<logged_in, user_role, user_email>>

\* A rerun of the participant view with no form submitted: the cached read
\* v of Participants_list and the reads after it, which leave the maps m.
ParticipantViewDone(s, o, v, m) == ParticipantViewAs(s, o, v, m, "participant_view", <<>>)
ParticipantViewRead(s, o, v) == ParticipantViewDone(s, o, v, ParticipantRest(v, user_email[s]))
ParticipantView(s, o) ==
    /\ Route(s) = "participant"
    /\ ParticipantViewRead(s, o, get_cached_sheet_data(sheet_data_cache[s], last_sheet_refresh[s],
                                                     "Participants_list",
                                                     get_sheet(sheet["Participants_list"], "Participants_list"),
                                                     now, o))
    /\ UNCHANGED <<sheet, logged_in, user_role, user_email, used>>

\* ------------------------------------------- projects, progress and likes
AllTables == Tables \cup {"Projects", "ProjectProgress", "Updates", "Comments", "Likes"}
Phases == {"Requirements", "Design"}
UpdateIDs == {"upd_1"}

InitProjects ==
    << Headers("Projects"),
       <<"P1", "about", "T1", "2024-01-01 10:00:00", "Requirements", "0">>,
       <<"P2", "about", "T2", "2024-01-01 10:00:00", "Requirements", "0">> >>
InitProjectProgress ==
    << Headers("ProjectProgress"),
       <<"P1", "Requirements", "In Progress", "2024-01-02", "", "c">>,
       <<"P2", "Requirements", "In Progress", "2024-01-02", "", "c">> >>
InitUpdates ==
    << Headers("Updates"),
       <<"upd_1", "2024-01-03 10:00:00", "T1", "ada@x.com", "done", "Requirements">> >>
InitLikes == << Headers("Likes"), <<"upd_1", ADMIN_EMAIL>>, <<"upd_1", "ada@x.com">> >>
InitSheet(t) ==
    CASE t = "Teams" -> InitTeams
      [] t = "Participants_list" -> InitParticipants
      [] t = "Projects" -> InitProjects
      [] t = "ProjectProgress" -> InitProjectProgress
      [] t = "Updates" -> InitUpdates
      [] t = "Likes" -> InitLikes
      [] OTHER -> <<Headers(t)>>

\* worksheet.update(range_name='<col><r>', values=[[v]]): one cell
update_cell(ws, r, c, v) ==
    [i \in 1..Max(Len(ws), r) |->
        IF i = r THEN SetCell(RowAt(ws, i), c, v) ELSE RowAt(ws, i)]

LoadDone(ld, c) == [ld EXCEPT !.cache = c.cache, !.refresh = c.refresh, !.calls = <<>>]
\* The admin view's run up to a tab: the load at its top, then the cached
\* reads ts of the tabs before and of that tab.
AdminRunOn(ld, ts) == LoadDone(ld, LoadSeq(ld.cache, ld.refresh, sheet, ts))
AdminRun(s, ts) == AdminRunOn(AdminLoad(s, "ok", "ok"), ts)
\* The participant view's run up to the updates dashboard
ParticipantRunOn(v, email) ==
    LoadDone([raised |-> v.raised, cache |-> EmptyDict, refresh |-> EmptyDict, calls |-> <<>>,
              wsP |-> sheet["Participants_list"], wsT |-> sheet["Teams"],
              participants_data |-> v.data, teams_data |-> <<>>],
             ParticipantRest(v, email))
ParticipantRun(s) ==
    ParticipantRunOn(get_cached_sheet_data(sheet_data_cache[s], last_sheet_refresh[s], "Participants_list",
                                           get_sheet(sheet["Participants_list"], "Participants_list"),
                                           now, "ok"),
                     user_email[s])
ProjectTabReads == <<"Projects">>
ProgressTabReads == <<"Projects", "Projects", "ProjectProgress">>
UpdatesTabReads == <<"Projects", "Projects", "ProjectProgress", "Updates", "Comments", "Likes">>
RunOf(s, ts) == IF user_role[s] = "admin" THEN AdminRun(s, ts) ELSE ParticipantRun(s)

\* The end of a run: sh2 is the spreadsheet after it, done whether it ended
\* in clear_cache().
FinishAs(s, ld, sh2, done, op, muts, mail, run) ==
    /\ sheet' = sh2
    /\ SetMaps(s, ld.cache, ld.refresh, done)
    /\ Spend(sh2 # sheet)
    /\ ev' = [Event(op, s, <<>>, muts, sh2 # sheet, done, <<>>) EXCEPT !.mail = mail, !.run = run]
    /\ UNCHANGED <<logged_in, user_role, user_email>>
Finish(s, ld, sh2, done, op, muts) == FinishAs(s, ld, sh2, done, op, muts, <<>>, <<>>)
Base(ld) == [sheet EXCEPT !["Participants_list"] = ld.wsP, !["Teams"] = ld.wsT]

\* A rerun of the whole admin view with no button pressed
AdminViewAll(s) ==
    /\ Route(s) = "admin"
    /\ \E ld \in {AdminRun(s, UpdatesTabReads)} : Finish(s, ld, Base(ld), FALSE, "admin_view", <<>>)

\* The Delete Project button (confirmed) of the project at label idx of the
\* Projects snapshot.  w: what delete_rows does.
available_teams(teams_data) == {Get(teams_data[i], "TeamName") : i \in 1..Len(teams_data)}
DeleteProjectAt(s, ld, idx, w, projects_data, ws) ==
    /\ idx < Len(projects_data)
    /\ Len(projects_data[idx + 1]) >= 6
    /\ projects_data[idx + 1][3][2] \in available_teams(ld.teams_data)
    /\ Finish(s, ld,
              [Base(ld) EXCEPT !["Projects"] = IF w = "ok" THEN delete_rows(ws, RowOffset(idx)) ELSE ws],
              w = "ok", "delete_project",
              <<MutLog("Projects", "delete", idx, "ProjectName", projects_data[idx + 1][1][2],
                       RowOffset(idx), ws, projects_data, w # "ok")>>)
DeleteProject(s, ld, idx, w) ==
    /\ user_role[s] = "admin"
    /\ DeleteProjectAt(s, ld, idx, w, ld.cache["Projects"], get_sheet(sheet["Projects"], "Projects"))

\* The Create Project form of the project tab.  The selectbox offers
\* available_teams (nothing is selected when there is none).  w: what
\* append_row does; mails: the batch of notifications.
new_project(project_name, project_description, assigned_team, timestamp) ==
    <<project_name, project_description, assigned_team, timestamp, "Requirements", "0">>
\* participants_df[participants_df["Team"] == team]
TeamRows(rows, team) == SelectSeq(rows, LAMBDA d : Get(d, "Team") = team)
CreateProjectAt(s, ld, project_name, project_description, assigned_team, send_notifications, w, rows, sh1, mails) ==
    /\ Len(sh1["Projects"]) <= MaxRows
    /\ FinishAs(s, ld,
                IF w = "ok"
                THEN [sh1 EXCEPT !["Projects"] =
                         append_row(@, new_project(project_name, project_description, assigned_team,
                                                   "2024-02-01 10:00:00"))]
                ELSE sh1,
                w = "ok", "create_project", <<>>, mails,
                <<[fields |-> <<project_name, project_description, assigned_team>>]>>
                \o (IF w = "ok" /\ send_notifications /\ Len(rows) > 0
                    THEN <<[batch |-> BatchLog(ParticipantsDf(ld.participants_data).rows, assigned_team, {},
                                               Column(rows, "Display Name"), mails)]>>
                    ELSE <<>>))
CreateProject(s, ld, project_name, project_description, assigned_team, send_notifications, w) ==
    /\ user_role[s] = "admin"
    /\ Len(ld.participants_data) > 0
    /\ assigned_team \in (IF available_teams(ld.teams_data) = {} THEN {""}
                          ELSE available_teams(ld.teams_data))
    /\ IF project_name = "" \/ project_description = "" \/ assigned_team = ""
       THEN FinishAs(s, ld, Base(ld), FALSE, "create_project", <<>>, <<>>,
                     <<[fields |-> <<project_name, project_description, assigned_team>>]>>)
       ELSE \E rows \in {TeamRows(ParticipantsDf(ld.participants_data).rows, assigned_team)} :
              \E mails \in (IF w = "ok" /\ send_notifications
                             THEN Batches(Column(rows, "Email"), "project_assignment", project_name)
                             ELSE {<<>>}) :
                CreateProjectAt(s, ld, project_name, project_description, assigned_team,
                                send_notifications, w, rows, Resolve(Base(ld), "Projects"), mails)

\* The Send Notification button of the project at label idx of the Projects
\* snapshot, whose columns the tab names by position.
SendNotificationAt(s, ld, project_name, team, rows, mails) ==
    FinishAs(s, ld, Base(ld), FALSE, "send_notification", <<>>, mails,
             <<[batch |-> BatchLog(ParticipantsDf(ld.participants_data).rows, team, {},
                                   Column(rows, "Display Name"), mails)]>>)
SendNotification(s, ld, idx) ==
    /\ user_role[s] = "admin"
    /\ Len(ld.participants_data) > 0
    /\ idx < Len(ld.cache["Projects"])
    /\ Len(ld.cache["Projects"][idx + 1]) >= 6
    /\ ld.cache["Projects"][idx + 1][3][2] \in available_teams(ld.teams_data)
    /\ \E rows \in {TeamRows(ParticipantsDf(ld.participants_data).rows,
                              ld.cache["Projects"][idx + 1][3][2])} :
          \E mails \in Batches(Column(rows, "Email"), "project_assignment",
                                ld.cache["Projects"][idx + 1][1][2]) :
            SendNotificationAt(s, ld, ld.cache["Projects"][idx + 1][1][2],
                               ld.cache["Projects"][idx + 1][3][2], rows, mails)

\* The Like / Unlike button of an update, for the session's user.
\* w: what delete_rows / append_row does.
LikesOf(likes_data, update_id, email) ==
    {i \in 1..Len(likes_data) :
        Get(likes_data[i], "UpdateID") = update_id /\ Get(likes_data[i], "Email") = email}
Lowest(S) == CHOOSE i \in S : \A j \in S : i <= j
ToggleLikeAt(s, ld, update_id, w, likes_data, mine, ws) ==
    IF mine # {}
    THEN Finish(s, ld,
                [Base(ld) EXCEPT !["Likes"] =
                    IF w = "ok" THEN delete_rows(ws, RowOffset(Lowest(mine) - 1)) ELSE ws],
                w = "ok", "unlike",
                <<MutLog("Likes", "delete", Lowest(mine) - 1, "UpdateID", update_id,
                         RowOffset(Lowest(mine) - 1), ws, likes_data, w # "ok")>>)
    ELSE /\ Len(ws) <= MaxRows
         /\ Finish(s, ld,
                   [Base(ld) EXCEPT !["Likes"] =
                       IF w = "ok" THEN append_row(ws, <<update_id, user_email[s]>>) ELSE ws],
                   w = "ok", "like", <<>>)
ToggleLike(s, ld, update_id, w) ==
    /\ logged_in[s]
    /\ "Updates" \in DOMAIN ld.cache
    /\ Matches(ld.cache["Updates"], "UpdateID", update_id) # {}
    /\ ToggleLikeAt(s, ld, update_id, w, ld.cache["Likes"],
                    LikesOf(ld.cache["Likes"], update_id, user_email[s]),
                    get_sheet(sheet["Likes"], "Likes"))

\* The Update Progress form of the progress dashboard.  w: "fail" the write
\* to ProjectProgress raises (the two cells of Projects are written by then).
NewProgress(selected_project, phase) == <<selected_project, phase, "In Progress", "2024-02-01", "", "c">>
UpdateProgressAt(s, ld, selected_project, phase, progress, w, projects_data, k, wsProj, progress_data, existing, wsProg) ==
    /\ (existing = {}) => Len(wsProg) <= MaxRows
    /\ Finish(s, ld,
              [Base(ld) EXCEPT
                 !["Projects"] = update_cell(update_cell(wsProj, RowOffset(k), 5, phase),
                                             RowOffset(k), 6, progress),
                 !["ProjectProgress"] =
                     IF w # "ok" THEN wsProg
                     ELSE IF existing # {}
                          THEN update_block(wsProg, RowOffset(Lowest(existing) - 1),
                                            <<NewProgress(selected_project, phase)>>)
                          ELSE append_row(wsProg, NewProgress(selected_project, phase))],
              w = "ok", "update_progress",
              <<MutLog("Projects", "update", k, "ProjectName", selected_project, RowOffset(k),
                       wsProj, projects_data, FALSE)>>
              \o (IF existing # {}
                  THEN <<MutLog("ProjectProgress", "update", Lowest(existing) - 1, "Phase", phase,
                                RowOffset(Lowest(existing) - 1), wsProg, progress_data, w # "ok")>>
                  ELSE <<>>))
UpdateProgress(s, ld, selected_project, phase, progress, w) ==
    /\ user_role[s] = "admin"
    /\ Matches(ld.cache["Projects"], "ProjectName", selected_project) # {}
    /\ UpdateProgressAt(s, ld, selected_project, phase, progress, w,
                        ld.cache["Projects"], First(ld.cache["Projects"], "ProjectName", selected_project),
                        get_sheet(sheet["Projects"], "Projects"),
                        ld.cache["ProjectProgress"],
                        {i \in 1..Len(ld.cache["ProjectProgress"]) :
                            /\ Get(ld.cache["ProjectProgress"][i], "ProjectName") = selected_project
                            /\ Get(ld.cache["ProjectProgress"][i], "Phase") = phase},
                        get_sheet(sheet["ProjectProgress"], "ProjectProgress"))

\* ------------------------------------------------------------------ clock
Older(t) == IF t - 1 < 0 - CACHE_DURATION THEN 0 - CACHE_DURATION ELSE t - 1
Tick ==
    /\ \E s \in Sessions : \E t \in DOMAIN last_sheet_refresh[s] :
          last_sheet_refresh[s][t] > 0 - CACHE_DURATION
    /\ last_sheet_refresh' =
          [s \in Sessions |-> [t \in DOMAIN last_sheet_refresh[s] |-> Older(last_sheet_refresh[s][t])]]
    /\ ev' = Event("tick", "", <<>>, <<>>, FALSE, FALSE, <<>>)
    /\ UNCHANGED <<sheet, logged_in, user_role, user_email, sheet_data_cache, used>>

\* Session A browses: it renders, waits, meets failures and writes.  Session B
\* stands for the other admins of the shared spreadsheet: its remote calls
\* succeed and it only takes the steps that end in clear_cache(), so it holds
\* no snapshot between two steps.
Browsing == {"A"}

\* What the remote read of table t can do in a run of session s: it is only
\* made when the session holds no valid snapshot of t.
Outs(s, t) ==
    IF s \notin Browsing
       \/ CacheValid(sheet_data_cache[s], last_sheet_refresh[s], t, now)
    THEN {"ok"} ELSE Outcomes
WriteOuts(s, failures) == IF s \in Browsing THEN {"ok"} \cup failures ELSE {"ok"}
Admins == {s \in Sessions : Route(s) = "admin"}
AdminLoads(s) ==
    {AdminLoad(s, oP, oT) : oP \in Outs(s, "Participants_list"), oT \in Outs(s, "Teams")}
\* the loads a button handler can run on: those that did not raise
HandlerLoads(s) == {[ld EXCEPT !.calls = <<>>] : ld \in {l \in AdminLoads(s) : ~l.raised}}
Cleared(s) == s \in Browsing \/ ev'.cleared

InitAdmins ==
    /\ sheet = [t \in Tables |-> IF t = "Teams" THEN InitTeams ELSE InitParticipants]
    /\ logged_in = [s \in Sessions |-> TRUE]
    /\ user_role = [s \in Sessions |-> "admin"]
    /\ user_email = [s \in Sessions |-> ADMIN_EMAIL]
    /\ sheet_data_cache = [s \in Sessions |-> EmptyDict]
    /\ last_sheet_refresh = [s \in Sessions |-> EmptyDict]
    /\ used = 0
    /\ ev = Event("init", "", <<>>, <<>>, FALSE, FALSE, <<>>)

Next ==
    \/ Tick
    \/ \E s \in Admins \cap Browsing : \E ld \in AdminLoads(s) : AdminView(s, ld)
    \/ \E s \in Admins : \E ld \in HandlerLoads(s) :
          \E n \in TeamNames \cup {""}, d \in {"", "d"}, w \in WriteOuts(s, {"fail"}) :
            CreateTeam(s, ld, n, d, w) /\ Cleared(s)
    \/ \E s \in Admins : \E ld \in HandlerLoads(s) :
          \E n \in TeamNames, w \in WriteOuts(s, {"fail1", "fail2"}) :
            DeleteTeam(s, ld, n, w) /\ Cleared(s)

Spec == InitAdmins /\ [][Next]_vars

\* -------------------------------------------------- the credential path
\* Session A is a participant's browser, logged out at first; session B is
\* the admin who resets passwords.
NewPasswords == Passwords \cup {"abc"}
InitAuth ==
    /\ sheet = [t \in Tables |-> IF t = "Teams" THEN InitTeams ELSE InitParticipants]
    /\ logged_in = [s \in Sessions |-> s = "B"]
    /\ user_role = [s \in Sessions |-> IF s = "B" THEN "admin" ELSE ""]
    /\ user_email = [s \in Sessions |-> IF s = "B" THEN ADMIN_EMAIL ELSE ""]
    /\ sheet_data_cache = [s \in Sessions |-> EmptyDict]
    /\ last_sheet_refresh = [s \in Sessions |-> EmptyDict]
    /\ used = 0
    /\ ev = Event("init", "", <<>>, <<>>, FALSE, FALSE, <<>>)

NextAuth ==
    \/ Tick
    \/ \E s \in Browsing : \E e \in Emails, p \in Passwords, o \in Outs(s, "Participants_list") :
          Login(s, e, p, o)
    \/ \E s \in Browsing : Logout(s)
    \/ \E s \in Browsing : \E o \in Outs(s, "Participants_list") : ParticipantView(s, o)
    \/ \E s \in Browsing :
          \E p \in Passwords, n \in NewPasswords, o \in Outs(s, "Participants_list"),
             o2 \in Outcomes, w \in WriteOuts(s, {"fail"}) :
            ChangePassword(s, p, n, n, o, o2, w)
    \/ \E s \in Admins : \E ld \in HandlerLoads(s) :
          \E e \in Emails, n \in NewPasswords, w \in WriteOuts(s, {"fail"}) :
            ResetPassword(s, ld, e, n, n, w) /\ Cleared(s)

SpecAuth == InitAuth /\ [][NextAuth]_vars

\* ------------------------------------------------------- login and routing
\* Session A starts at the login page and may log in as the admin or as a
\* participant; session B is the admin who resets passwords.  The
\* Participants worksheet may not have its PasswordHash column yet.
InitParticipantsNoHash ==
    << <<"Name", "Email", "Preferred Name", "Status", "Team">>,
       <<"Ada L", "ada@x.com", "Ada", "Pending", "T1">>,
       <<"Bob B", "bob@x.com", "", "Pending", "">> >>
InitLogin ==
    /\ \E p \in {InitParticipants, InitParticipantsNoHash} :
          sheet = [t \in Tables |-> IF t = "Teams" THEN InitTeams ELSE p]
    /\ logged_in = [s \in Sessions |-> s = "B"]
    /\ user_role = [s \in Sessions |-> IF s = "B" THEN "admin" ELSE ""]
    /\ user_email = [s \in Sessions |-> IF s = "B" THEN ADMIN_EMAIL ELSE ""]
    /\ sheet_data_cache = [s \in Sessions |-> EmptyDict]
    /\ last_sheet_refresh = [s \in Sessions |-> EmptyDict]
    /\ used = 0
    /\ ev = Event("init", "", <<>>, <<>>, FALSE, FALSE, <<>>)

NextLogin ==
    \/ Tick
    \/ \E s \in Browsing :
          \E e \in Emails \cup {ADMIN_EMAIL}, p \in Passwords \cup {ADMIN_PASSWORD},
             o \in Outs(s, "Participants_list") :
            Login(s, e, p, o)
    \/ \E s \in Browsing : Logout(s)
    \/ \E s \in Admins \cap Browsing : \E ld \in AdminLoads(s) : AdminView(s, ld)
    \/ \E s \in Browsing : \E o \in Outs(s, "Participants_list") : ParticipantView(s, o)
    \/ \E s \in Admins \ Browsing : \E ld \in HandlerLoads(s) :
          \E e \in Emails, n \in Passwords :
            ResetPassword(s, ld, e, n, n, "ok") /\ Cleared(s)

SpecLogin == InitLogin /\ [][NextLogin]_vars

\* ----------------------------------------------------- the resolver alone
\* The spreadsheet as the operator hands it over: a worksheet may be absent
\* (<<>> below), empty, hold its prescribed header row with or without data
\* rows, or hold other headers.  Both sessions start at the login page.
SheetVariants(t) ==
    IF t = "Participants_list"
    THEN {<<>>, << <<>> >>, <<InitParticipants>>, <<InitParticipantsNoHash>>,
          << <<Headers(t)>> >>}
    ELSE {<<>>, << <<>> >>, << <<Headers(t)>> >>,
          << <<Headers(t), <<"x", "y">>, <<"z", "y">> >> >>,
          << << <<"Name", "Description">>, <<"x", "y">> >> >>}
ResolverTables == {"Teams", "Likes", "Participants_list"}
InitSheets ==
    /\ \E v \in [ResolverTables -> UNION {SheetVariants(t) : t \in ResolverTables}] :
          /\ \A t \in ResolverTables : v[t] \in SheetVariants(t)
          /\ sheet = [t \in {u \in ResolverTables : v[u] # <<>>} |-> v[t][1]]
    /\ logged_in = [s \in Sessions |-> FALSE]
    /\ user_role = [s \in Sessions |-> ""]
    /\ user_email = [s \in Sessions |-> ""]
    /\ sheet_data_cache = [s \in Sessions |-> EmptyDict]
    /\ last_sheet_refresh = [s \in Sessions |-> EmptyDict]
    /\ used = 0
    /\ ev = Event("init", "", <<>>, <<>>, FALSE, FALSE, <<>>)

\* One get_sheet(sheet_name) call of a dashboard run of session s.  The admin
\* dashboard resolves every worksheet, the participant dashboard all but Teams.
GetSheet(s, sheet_name) ==
    /\ Route(s) = "admin" \/ (Route(s) = "participant" /\ sheet_name # "Teams")
    /\ sheet' = Resolve(sheet, sheet_name)
    /\ ev' = Event("get_sheet", s, <<>>, <<[t |-> sheet_name]>>, Resolve(sheet, sheet_name) # sheet, FALSE, <<>>)
    /\ UNCHANGED <<logged_in, user_role, user_email, sheet_data_cache, last_sheet_refresh, used>>

NextSheets ==
    \/ \E s \in Sessions :
          \E e \in Emails \cup {ADMIN_EMAIL}, p \in Passwords \cup {ADMIN_PASSWORD},
             o \in Outs(s, "Participants_list") :
            Login(s, e, p, o)
    \/ \E s \in Sessions : Logout(s)
    \/ \E s \in Sessions, t \in ResolverTables : GetSheet(s, t)

SpecSheets == InitSheets /\ [][NextSheets]_vars

\* ------------------------------------------------ signup and team assignment
\* signup.py writes to client.open_by_url(url).sheet1, the first worksheet of
\* the spreadsheet: the worksheet the spreadsheet was created with ("Sheet1")
\* as long as it is there, Participants_list when the operator has made it
\* the first worksheet.
sheet1(sh) == IF "Sheet1" \in DOMAIN sh THEN "Sheet1" ELSE "Participants_list"
\* new_data of the Submit handler: the 19 form values, in the order written
new_data(name, email, pref_name) ==
    <<name, email, pref_name, "Beginner", "False", "Student", "why", "goals", "Builder",
      "Tester", "skills", "True", "Evening", "True", "GitHub", "", "", "False", "Pending">>
\* The Submit button of the signup form.  w: what get_google_sheet() and
\* sheet.append_row do; the handler's except clause reports a failure.
Signup(name, email, pref_name, w) ==
    /\ Len(sheet[sheet1(sheet)]) < MaxRows
    /\ sheet' = IF w = "ok"
                THEN [sheet EXCEPT ![sheet1(sheet)] = append_row(@, new_data(name, email, pref_name))]
                ELSE sheet
    /\ ev' = Event("signup", "", <<>>,
                   <<[name |-> name, email |-> email, row |-> new_data(name, email, pref_name),
                      raised |-> Try([ok |-> w = "ok", raised |-> w # "ok"]).raised]>>,
                   w = "ok", FALSE, <<>>)
    /\ UNCHANGED <<logged_in, user_role, user_email, sheet_data_cache, last_sheet_refresh, used>>

\* The Assign Teams button of the team tab.  The multiselect offers the
\* Display Names of the participants without a team; for each selected name
\* the email is taken from the first row with that Display Name, every row
\* with that Display Name gets the team, and notify_participant is called
\* once (listed here in row order); then the whole frame is written back.
\* w: what participants_sheet.update does.
unassigned_names(df) ==
    {Get(df.rows[i], "Display Name") :
        i \in {j \in 1..Len(df.rows) :
                 Get(df.rows[j], "Team") = "" /\ Strip(Get(df.rows[j], "Display Name")) # ""}}
TeamAssigned(df, selected_participants, selected_team) ==
    [df EXCEPT !.rows = [i \in 1..Len(df.rows) |->
        IF Get(df.rows[i], "Display Name") \in selected_participants
        THEN Put(df.rows[i], "Team", selected_team) ELSE df.rows[i]]]
FirstRows(rows, selected_participants) ==
    LET firsts == SelectSeq([i \in 1..Len(rows) |-> i],
                            LAMBDA i : /\ Get(rows[i], "Display Name") \in selected_participants
                                       /\ \A j \in 1..(i - 1) :
                                             Get(rows[j], "Display Name") # Get(rows[i], "Display Name"))
    IN [n \in 1..Len(firsts) |-> rows[firsts[n]]]
AssignMails(rows, selected_participants, gmail, ys) ==
    NotifyAll(Column(FirstRows(rows, selected_participants), "Email"), "team_assignment", "", gmail, ys)
AssignTeams(s, ld) ==
    /\ ~ld.raised
    /\ Len(ld.participants_data) > 0
    /\ Len(ld.teams_data) > 0
    /\ \E df \in {ParticipantsDf(ld.participants_data)} :
          \E selected_participants \in (SUBSET unassigned_names(df)) \ {{}},
             selected_team \in available_teams(ld.teams_data),
             w \in {"ok", "fail"}, gmail \in {"ok", "missing"},
             ys \in [Range(Column(df.rows, "Email")) -> {"ok", "fail"}] :
            \E ws \in {IF w = "ok"
                       THEN update_block(ld.wsP, 1,
                                         DfBlock(TeamAssigned(df, selected_participants, selected_team)))
                       ELSE ld.wsP} :
              /\ Loaded(s, ld, ws, ld.wsT, w = "ok")
              /\ Spend(ws # sheet["Participants_list"])
              /\ ev' = [Event("assign_teams", s, <<>>,
                              <<[selected |-> selected_participants, team |-> selected_team,
                                 snapshot |-> df.rows, raised |-> w # "ok"]>>,
                              ws # sheet["Participants_list"], w = "ok", <<>>)
                          EXCEPT !.mail = AssignMails(df.rows, selected_participants, gmail, ys),
                                 !.run = <<[batch |->
                                    BatchLog(df.rows, selected_team, selected_participants,
                                             Column(FirstRows(df.rows, selected_participants), "Display Name"),
                                             AssignMails(df.rows, selected_participants, gmail, ys))]>>]

\* The spreadsheet holds two teams and an empty Participants_list; the
\* people sign up, and the admin (session A) assigns them to teams.
InitPeople ==
    /\ \E first \in {"Participants_list", "Sheet1"} :
          sheet = [t \in Tables \cup ({first} \ {"Participants_list"}) |->
                     IF t = "Teams" THEN SubSeq(InitTeams, 1, 3)
                     ELSE IF t = "Participants_list" THEN <<Headers("Participants_list")>>
                     ELSE <<>>]
    /\ logged_in = [s \in Sessions |-> TRUE]
    /\ user_role = [s \in Sessions |-> "admin"]
    /\ user_email = [s \in Sessions |-> ADMIN_EMAIL]
    /\ sheet_data_cache = [s \in Sessions |-> EmptyDict]
    /\ last_sheet_refresh = [s \in Sessions |-> EmptyDict]
    /\ used = 0
    /\ ev = Event("init", "", <<>>, <<>>, FALSE, FALSE, <<>>)

NextPeople ==
    \/ \E a \in {<<"Ada L", "ada@x.com", "Ada">>, <<"Sam S", "sam1@x.com", "Sam">>,
                  <<"Sam T", "sam2@x.com", "Sam">>},
          w \in {"ok", "fail"} :
            Signup(a[1], a[2], a[3], w)
    \/ \E s \in Admins \cap Browsing : \E ld \in HandlerLoads(s) : AssignTeams(s, ld)

SpecPeople == InitPeople /\ [][NextPeople]_vars

\* ------------------------------------------------------ the configuration
\* st.secrets as the sections present and the keys present in each.
required_configs ==
    << <<"admin", <<"email", "password">> >>,
       <<"gmail", <<"sender_email", "app_password">> >>,
       <<"gspread", <<"type", "project_id", "private_key_id", "private_key",
                      "client_email", "client_id", "auth_uri", "token_uri">> >>,
       <<"google", <<"google_sheet_url">> >> >>
\* faulty variant: only the sections are looked at
validate_sections(secrets) ==
    SelectSeq([i \in 1..Len(required_configs) |-> <<"Missing section", required_configs[i][1]>>],
              LAMBDA m : m[2] \notin DOMAIN secrets)
\* validate_secrets(): the list of messages, in the order of required_configs
validate_secrets(secrets) ==
    LET missing(c) ==
            IF c[1] \notin DOMAIN secrets THEN << <<"Missing section", c[1]>> >>
            ELSE SelectSeq([i \in 1..Len(c[2]) |-> <<"Missing key in", c[1], c[2][i]>>],
                           LAMBDA m : m[3] \notin secrets[c[1]])
    IN missing(required_configs[1]) \o missing(required_configs[2])
       \o missing(required_configs[3]) \o missing(required_configs[4])
\* One run of main() in a session that is not logged in, with the Login
\* button pressed: the checklist and nothing else when validate_secrets()
\* reports something, the login page and its handler otherwise.
Main(s, secrets, email, password, o) ==
    /\ ~logged_in[s]
    /\ IF validate_secrets(secrets) # <<>>
       THEN /\ ev' = [Event("config", s, <<>>, <<>>, FALSE, FALSE, <<>>)
                        EXCEPT !.run = <<[secrets |-> secrets]>>]
            /\ UNCHANGED <<sheet, logged_in, user_role, user_email, sheet_data_cache,
                           last_sheet_refresh, used>>
       ELSE LoginRun(s, email, password, o, <<[secrets |-> secrets]>>)

\* Sessions start logged out; the configuration found by a run is any
\* configuration with some sections and at most one key left out.
InitConfig ==
    /\ InitSheets
    /\ sheet = [t \in {"Participants_list"} |-> InitParticipants]

NextConfig ==
    \/ \E s \in Browsing :
          \E gone \in SUBSET {required_configs[i][1] : i \in 1..Len(required_configs)},
             key \in {"", "password", "app_password", "private_key", "token_uri", "google_sheet_url"},
             e \in {"ada@x.com", ADMIN_EMAIL}, p \in {"secret1", ADMIN_PASSWORD}, o \in {"ok", "exc"} :
            Main(s, [c \in {required_configs[i][1] : i \in 1..Len(required_configs)} \ gone |->
                       Range((CHOOSE r \in Range(required_configs) : r[1] = c)[2]) \ {key}],
                 e, p, o)
    \/ \E s \in Browsing : Logout(s)

SpecConfig == InitConfig /\ [][NextConfig]_vars

\* ------------------------------------------------- teams and their members
\* Two admins share a spreadsheet with one team; both create and delete
\* teams and assign participants, and session A also just looks at the page.
InitOneTeam ==
    /\ sheet = [t \in Tables |-> IF t = "Teams" THEN SubSeq(InitTeams, 1, 2) ELSE InitParticipants]
    /\ logged_in = [s \in Sessions |-> TRUE]
    /\ user_role = [s \in Sessions |-> "admin"]
    /\ user_email = [s \in Sessions |-> ADMIN_EMAIL]
    /\ sheet_data_cache = [s \in Sessions |-> EmptyDict]
    /\ last_sheet_refresh = [s \in Sessions |-> EmptyDict]
    /\ used = 0
    /\ ev = Event("init", "", <<>>, <<>>, FALSE, FALSE, <<>>)

NextTeams ==
    \/ \E s \in Admins \cap Browsing : \E ld \in HandlerLoads(s) : AdminView(s, ld)
    \/ \E s \in Admins : \E ld \in HandlerLoads(s) :
          \E n \in TeamNames \cup {""}, d \in {"", "d"}, w \in WriteOuts(s, {"fail"}) :
            CreateTeam(s, ld, n, d, w) /\ Cleared(s)
    \/ \E s \in Admins : \E ld \in HandlerLoads(s) :
          \E n \in TeamNames, w \in WriteOuts(s, {"fail1", "fail2"}) :
            DeleteTeam(s, ld, n, w) /\ Cleared(s)
    \/ \E s \in Admins : \E ld \in HandlerLoads(s) : AssignTeams(s, ld) /\ Cleared(s)

SpecTeams == InitOneTeam /\ [][NextTeams]_vars

\* ------------------------------------------------- notify_participant alone
NextNotify ==
    \E s \in Sessions, e \in Emails,
       k \in {"team_assignment", "project_assignment", "password_reset", "reminder"},
       p \in {"", " ", "P1"}, g \in {"ok", "missing", "nosender", "nosecrets"}, y \in {"ok", "fail"} :
        Notify(s, e, k, p, g, y)

SpecNotify == InitAdmins /\ [][NextNotify]_vars

\* ------------------------------------------------------ the row mutators
\* Session A is an admin's or a participant's browser; session B is another
\* admin.  Every remote read succeeds and no snapshot expires.
InitMut ==
    /\ sheet = [t \in AllTables |-> InitSheet(t)]
    /\ logged_in = [s \in Sessions |-> TRUE]
    /\ \E r \in {"admin", "participant"} :
          /\ user_role = [s \in Sessions |-> IF s = "A" THEN r ELSE "admin"]
          /\ user_email = [s \in Sessions |-> IF s = "A" /\ r = "participant" THEN "ada@x.com" ELSE ADMIN_EMAIL]
    /\ sheet_data_cache = [s \in Sessions |-> EmptyDict]
    /\ last_sheet_refresh = [s \in Sessions |-> EmptyDict]
    /\ used = 0
    /\ ev = Event("init", "", <<>>, <<>>, FALSE, FALSE, <<>>)

NextMut ==
    \/ \E s \in Browsing : AdminViewAll(s)
    \/ \E s \in Browsing : ParticipantView(s, "ok")
    \/ \E s \in Admins : \E ld \in {AdminRun(s, <<>>)} :
          \E n \in TeamNames, w \in WriteOuts(s, {"fail2"}) : DeleteTeam(s, ld, n, w) /\ Cleared(s)
    \/ \E s \in Admins : \E ld \in {AdminRun(s, ProjectTabReads)} :
          \E idx \in 0..(MaxRows - 1), w \in WriteOuts(s, {"fail"}) : DeleteProject(s, ld, idx, w) /\ Cleared(s)
    \/ \E s \in Admins \cap Browsing : \E ld \in {AdminRun(s, ProgressTabReads)} :
          \E p \in {"P1", "P2"}, ph \in Phases, w \in WriteOuts(s, {"fail"}) :
             UpdateProgress(s, ld, p, ph, "50", w) /\ Cleared(s)
    \/ \E s \in Sessions : \E ld \in {RunOf(s, UpdatesTabReads)} :
          \E u \in UpdateIDs, w \in WriteOuts(s, {"fail"}) : ToggleLike(s, ld, u, w) /\ Cleared(s)
    \/ \E s \in Admins \cap Browsing : \E ld \in {AdminRun(s, UpdatesTabReads)} :
          \E e \in Emails, n \in Passwords, w \in WriteOuts(s, {"fail"}) :
             ResetPassword(s, ld, e, n, n, w) /\ Cleared(s)
    \/ \E s \in Browsing : \E p \in Passwords, n \in Passwords, w \in WriteOuts(s, {"fail"}) :
          ChangePassword(s, p, n, n, "ok", "ok", w)

SpecMut == InitMut /\ [][NextMut]_vars

\* ------------------------------------------------ the participant's update
\* pd.Timestamp.now().strftime(...): the clock read to the second
Seconds == {0, 1}
Digit(sec) == IF sec = 0 THEN "0" ELSE "1"
\* strftime('%Y%m%d%H%M%S') and strftime("%Y-%m-%d %H:%M:%S")
StampCompact(sec) == "2024020110000" \o Digit(sec)
Stamp(sec) == "2024-02-01 10:00:0" \o Digit(sec)
\* f"upd_{...}_{user_email}"
update_id(sec, user_email_) == "upd_" \o StampCompact(sec) \o "_" \o user_email_
\* projects_df[projects_df["AssignedTeam"] == user_team]
project_info(projects_data, user_team) ==
    SelectSeq(projects_data, LAMBDA d : GetOr(d, "AssignedTeam", "") = user_team)
\* The Submit Update form of the participant view, submitted at clock second
\* sec (no earlier than the updates already written).  The phase selectbox
\* is shown when the team's project was found.  w: what append_row does.
SubmitUpdateAt(s, ld, update_text, phase, sec, w, user_team, sh1) ==
    /\ user_team # ""
    /\ Len(ld.cache["Projects"]) > 0
    /\ phase \in (IF project_info(ld.cache["Projects"], user_team) = <<>> THEN {""} ELSE Phases)
    /\ Len(sh1["Updates"]) <= MaxRows
    /\ \A u \in Seconds : u > sec => \A i \in 2..Len(sh1["Updates"]) : sh1["Updates"][i][2] # Stamp(u)
    /\ FinishAs(s, ld,
                IF w = "ok"
                THEN [sh1 EXCEPT !["Updates"] =
                         append_row(@, <<update_id(sec, user_email[s]), Stamp(sec), user_team,
                                         user_email[s], update_text, phase>>)]
                ELSE sh1,
                w = "ok", "submit_update", <<>>, <<>>,
                <<[update |-> update_id(sec, user_email[s]), sec |-> sec, email |-> user_email[s],
                   found |-> project_info(ld.cache["Projects"], user_team)]>>)
SubmitUpdate(s, ld, update_text, phase, sec, w) ==
    /\ Route(s) = "participant"
    /\ ~ld.raised
    /\ update_text # ""
    /\ Matches(ld.participants_data, "Email", user_email[s]) # {}
    /\ SubmitUpdateAt(s, ld, update_text, phase, sec, w,
                      GetOr(ld.participants_data[First(ld.participants_data, "Email", user_email[s]) + 1],
                            "Team", ""),
                      Resolve(Base(ld), "Updates"))

\* ------------------------------------------------------------ the forms
\* Session A is an admin's or a participant's browser and submits every
\* form with valid and with invalid fields; session B is another admin.
\* The spreadsheet may have no team yet.
InitForms ==
    /\ \E teams \in {InitTeams, <<Headers("Teams")>>} :
          sheet = [t \in AllTables |-> IF t = "Teams" THEN teams ELSE InitSheet(t)]
    /\ logged_in = [s \in Sessions |-> TRUE]
    /\ \E r \in {"admin", "participant"} :
          /\ user_role = [s \in Sessions |-> IF s = "A" THEN r ELSE "admin"]
          /\ user_email = [s \in Sessions |-> IF s = "A" /\ r = "participant" THEN "ada@x.com" ELSE ADMIN_EMAIL]
    /\ sheet_data_cache = [s \in Sessions |-> EmptyDict]
    /\ last_sheet_refresh = [s \in Sessions |-> EmptyDict]
    /\ used = 0
    /\ ev = Event("init", "", <<>>, <<>>, FALSE, FALSE, <<>>)
FormPasswords == {"", "abc", "secret1", "secret2"}
NextForms ==
    \/ \E s \in Browsing : AdminViewAll(s)
    \/ \E s \in Browsing : ParticipantView(s, "ok")
    \/ \E s \in Admins : \E ld \in {AdminRun(s, <<>>)} :
          \E n \in {"", "T3"}, d \in {"", "d"}, w \in WriteOuts(s, {"fail"}) :
            CreateTeam(s, ld, n, d, w) /\ Cleared(s)
    \/ \E s \in Admins : \E ld \in {AdminRun(s, ProjectTabReads)} :
          \E n \in {"", "P3"}, d \in {"", "about"}, t \in TeamNames \cup {""}, send \in BOOLEAN,
             w \in WriteOuts(s, {"fail"}) :
            CreateProject(s, ld, n, d, t, send, w) /\ Cleared(s)
    \/ \E s \in Admins : \E ld \in {AdminRun(s, UpdatesTabReads)} :
          \E e \in {"ada@x.com"}, n \in FormPasswords, w \in WriteOuts(s, {"fail"}) :
            \E c \in {"", n, "secret2"} : ResetPassword(s, ld, e, n, c, w) /\ Cleared(s)
    \/ \E s \in Browsing :
          \E p \in {"", "secret1"}, n \in FormPasswords, w \in WriteOuts(s, {"fail"}) :
            \E c \in {"", n, "secret2"} : ChangePassword(s, p, n, c, "ok", "ok", w)
    \/ \E s \in Browsing : \E ld \in {ParticipantRun(s)} :
          \E sec \in Seconds, ph \in Phases \cup {""}, w \in WriteOuts(s, {"fail"}) :
            SubmitUpdate(s, ld, "done", ph, sec, w)

SpecForms == InitForms /\ [][NextForms]_vars

\* ------------------------------------------------- batches of notifications
\* Two admins assign participants to teams, create projects and press Send
\* Notification.  Two participants may share a Preferred Name.
InitBatch ==
    /\ \E pn \in {"", "Ada"} :
          sheet = [t \in AllTables |->
                     IF t = "Participants_list" THEN [InitParticipants EXCEPT ![3][3] = pn]
                     ELSE InitSheet(t)]
    /\ logged_in = [s \in Sessions |-> TRUE]
    /\ user_role = [s \in Sessions |-> "admin"]
    /\ user_email = [s \in Sessions |-> ADMIN_EMAIL]
    /\ sheet_data_cache = [s \in Sessions |-> EmptyDict]
    /\ last_sheet_refresh = [s \in Sessions |-> EmptyDict]
    /\ used = 0
    /\ ev = Event("init", "", <<>>, <<>>, FALSE, FALSE, <<>>)

NextBatch ==
    \/ \E s \in Admins : \E ld \in {AdminRun(s, <<>>)} : AssignTeams(s, ld) /\ Cleared(s)
    \/ \E s \in Admins : \E ld \in {AdminRun(s, ProjectTabReads)} :
          \E t \in TeamNames, w \in WriteOuts(s, {"fail"}) :
            CreateProject(s, ld, "P3", "about", t, TRUE, w) /\ Cleared(s)
    \/ \E s \in Admins \cap Browsing : \E ld \in {AdminRun(s, ProjectTabReads)} :
          \E idx \in 0..(MaxRows - 1) : SendNotification(s, ld, idx)

SpecBatch == InitBatch /\ [][NextBatch]_vars

\* ------------------------------------------------------------- properties
Calls == Range(ev.calls)
Muts == Range(ev.muts)
\* the call found a snapshot of its table fetched less than CACHE_DURATION ago
Fresh(c) == c.had /\ c.age < CACHE_DURATION
\* the call found a snapshot of its table fetched CACHE_DURATION or more ago
Expired(c) == c.had /\ c.age >= CACHE_DURATION

\* C1: a get_cached_sheet_data call made less than 5 minutes after the fetch
\* that stored the session's snapshot of the table returns that snapshot,
\* makes no remote read, raises nothing and leaves both maps as they were.
C1_ReadCacheHit ==
    \A c \in Calls : Fresh(c) => c.gotPrev /\ c.reads = 0 /\ ~c.raised /\ c.kept
\* a hit that returned the snapshot although the remote rows had changed
C1_Witness ==
    \E c \in Calls : Fresh(c) /\ c.age > 0 /\ c.behind /\ c.gotPrev /\ ~c.gotRemote /\ c.reads = 0

\* C2: a call for a table whose snapshot is 5 minutes old or older makes
\* exactly one remote read; when the read succeeds the rows read are stored
\* with the current time and returned.
C2_ReadCacheExpiry ==
    \A c \in Calls :
        Expired(c) => /\ c.reads = 1
                      /\ (c.o = "ok") => (~c.raised /\ c.gotRemote /\ c.stored)
\* an expired snapshot replaced by rows that differ from it
C2_Witness ==
    \E c \in Calls : Expired(c) /\ c.o = "ok" /\ c.behind /\ c.reads = 1 /\ c.gotRemote /\ c.stored

\* C3: in the first run of a session after a step of its own that wrote and
\* ended in clear_cache(), every get_cached_sheet_data call finds no snapshot,
\* reads the remote table once and, unless that read raises, returns and
\* stores the rows the table holds now; no earlier snapshot is returned.
C3_WriteThenRead ==
    ev.post =>
        \A c \in Calls :
            /\ ~c.had /\ c.reads = 1 /\ ~c.gotPrev
            /\ ~c.raised => (c.gotRemote /\ c.stored)
\* such a run, reading both tables after the session's own write
C3_Witness ==
    /\ ev.post /\ Len(ev.calls) = 2 /\ sheet["Teams"] # InitTeams
    /\ \A c \in Calls : c.o = "ok" /\ c.gotRemote /\ c.stored

\* C5: when the remote read fails with the rate-limit error (HTTP 429), the
\* call returns the session's snapshot of the table if it holds one, whatever
\* its age, and raises if it holds none; the maps are left as they were.
C5_RateLimitFallback ==
    \A c \in Calls :
        (c.reads = 1 /\ c.o = "api429") =>
            /\ c.kept
            /\ IF c.had THEN ~c.raised /\ c.gotPrev ELSE c.raised
\* one run in which the 429 was answered from a stale snapshot of one table
\* and propagated for the other table, of which there was no snapshot
C5_Witness ==
    \E c, d \in Calls :
        /\ c.o = "api429" /\ c.reads = 1 /\ c.had /\ c.behind /\ c.gotPrev
        /\ d.o = "api429" /\ d.reads = 1 /\ ~d.had /\ d.raised

\* C6: when the remote read fails with anything that is not the rate-limit
\* signal, the call returns the session's snapshot if it holds one and raises
\* only if it holds none.  (Violated: an APIError without "429" is re-raised
\* although a snapshot exists.)
C6_OtherFailureFallback ==
    \A c \in Calls :
        (c.reads = 1 /\ c.o \in {"apiOther", "exc"}) =>
            IF c.had THEN ~c.raised /\ c.gotPrev ELSE c.raised

\* C7: every single-row delete or update is issued at remote row k + 2, k
\* being the 0-based position of the selected record in the snapshot used;
\* when the remote rows equal that snapshot and the call does not raise, a
\* delete removes exactly that record's row and an update changes no other
\* row and leaves the record's key in place.
C7_RowMutatorOffset ==
    \A m \in Muts :
        /\ m.k >= 0 /\ m.k < Len(m.snapshot)
        /\ Get(m.snapshot[m.k + 1], m.col) = m.val
        /\ m.row = m.k + 2
        /\ (get_all_records(m.ws) = m.snapshot /\ ~m.raised) =>
              IF m.kind = "delete"
              THEN /\ Len(sheet[m.t]) = Len(m.ws) - 1
                   /\ \A i \in 1..Len(sheet[m.t]) :
                         sheet[m.t][i] = m.ws[IF i < m.k + 2 THEN i ELSE i + 1]
              ELSE /\ Len(sheet[m.t]) = Len(m.ws)
                   /\ \A i \in 1..Len(m.ws) : (i # m.k + 2) => sheet[m.t][i] = m.ws[i]
                   /\ Get(get_all_records(sheet[m.t])[m.k + 1], m.col) = m.val
\* a progress update that wrote the second project's row and the second
\* phase-progress row, both selected from snapshots equal to the remote rows
C7_Witness ==
    /\ ev.op = "update_progress" /\ Len(ev.muts) = 2
    /\ \A m \in Muts :
          /\ ~m.raised /\ m.k = 1 /\ m.kind = "update"
          /\ get_all_records(m.ws) = m.snapshot
          /\ sheet[m.t] # m.ws

\* C8: a row deletion is issued at snapshot position + 2 and, when it does
\* not raise, removes whatever the remote table holds in that row at that
\* moment: nothing compares the row with the one selected.
C8_StaleOffsetApplied ==
    \A m \in Muts :
        (m.kind = "delete" /\ ~m.raised) =>
            /\ m.row = m.k + 2
            /\ sheet[m.t] = IF m.row <= Len(m.ws) THEN RemoveAt(m.ws, m.row) ELSE m.ws
\* session A deletes from a snapshot taken before another session deleted a
\* row above the target: the call succeeds and removes another team's row
C8_Witness ==
    \E m \in Muts :
        /\ ev.s = "A" /\ m.kind = "delete" /\ ~m.raised
        /\ m.k >= 1 /\ m.row <= Len(m.ws)
        /\ \A i \in 2..Len(m.ws) : m.ws[i][1] # Get(m.snapshot[1], m.col)
        /\ m.ws[m.row][1] # m.val
        /\ \E i \in 2..Len(m.ws) : m.ws[i][1] = m.val
        /\ \E i \in 2..Len(sheet[m.t]) : sheet[m.t][i][1] = m.val

\* C9: a step of one session leaves the snapshot map and the fetch-time map
\* of every other session as they were (the passing of time ages every fetch
\* time but removes none), so a session keeps its snapshot across another
\* session's write and clear_cache().
C9_PerSessionCache ==
    [][\A s \in Sessions :
          (ev'.s # s) =>
              /\ sheet_data_cache'[s] = sheet_data_cache[s]
              /\ DOMAIN last_sheet_refresh'[s] = DOMAIN last_sheet_refresh[s]
              /\ (ev'.op # "tick") => last_sheet_refresh'[s] = last_sheet_refresh[s]]_vars
\* the other session has just written to Teams and cleared its own cache,
\* while A still holds its valid snapshot from before that write
C9_Witness ==
    /\ ev.s = "B" /\ ev.wrote /\ ev.cleared
    /\ sheet_data_cache["B"] = EmptyDict
    /\ CacheValid(sheet_data_cache["A"], last_sheet_refresh["A"], "Teams", now)
    /\ sheet_data_cache["A"]["Teams"] # get_all_records(sheet["Teams"])

\* C4: after a step that wrote to the spreadsheet, the session that wrote
\* holds no snapshot from before the write: every snapshot it holds equals
\* the table's rows.  (Violated: change_participant_password writes the new
\* hash and never calls clear_cache().)
C4_WriteClearsCache ==
    ev.wrote =>
        \A t \in DOMAIN sheet_data_cache[ev.s] :
            sheet_data_cache[ev.s][t] = get_all_records(sheet[t])

\* C10: a participant login attempt that follows a successful password
\* reset for its email, and whose read of Participants_list does not raise,
\* succeeds exactly when it presents the password the reset set.  (Violated:
\* the login is checked against the session's own snapshot, which may be
\* from before the reset.)
C10_ResetThenLogin ==
    [][(/\ ev.op = "reset_password" /\ ev.cleared
        /\ ev'.op = "login" /\ Len(ev'.calls) = 1 /\ ~ev'.calls[1].raised
        /\ ev'.auth[1].email = ev.auth[1].email)
       => (ev'.auth[1].ok <=> ev'.auth[1].password = ev.auth[1].password)]_vars

\* the first record of email in data has an empty PasswordHash or none
NoPasswordHash(data, email) ==
    /\ First(data, "Email", email) >= 0
    /\ GetOr(data[First(data, "Email", email) + 1], "PasswordHash", "") = ""

C13_LoginGating ==
    [][/\ (ev'.op \in {"admin_view", "reset_password"}) =>
              (logged_in[ev'.s] /\ user_role[ev'.s] = "admin")
       /\ (ev'.op \in {"participant_view", "change_password"}) =>
              (logged_in[ev'.s] /\ user_role[ev'.s] = "participant")
       /\ \A s \in Sessions :
              (~logged_in[s] /\ logged_in'[s]) =>
                  /\ ev'.op = "login" /\ ev'.s = s /\ ev'.auth[1].ok
                  /\ user_role'[s] = ev'.auth[1].role /\ user_email'[s] = ev'.auth[1].email
                  /\ (ev'.auth[1].role = "admin") =>
                        (ev'.auth[1].email = ADMIN_EMAIL /\ ev'.auth[1].password = ADMIN_PASSWORD)
                  /\ (ev'.auth[1].role = "participant") =>
                        /\ ~ev'.calls[1].raised
                        /\ ~NoPasswordHash(sheet_data_cache'[s]["Participants_list"], ev'.auth[1].email)
                        /\ GetOr(sheet_data_cache'[s]["Participants_list"]
                                    [First(sheet_data_cache'[s]["Participants_list"], "Email", ev'.auth[1].email) + 1],
                                 "PasswordHash", "")
                             = generate_password_hash(ev'.auth[1].password)
       /\ (ev'.op = "logout") =>
              (~logged_in'[ev'.s] /\ user_role'[ev'.s] = "" /\ user_email'[ev'.s] = "")
       /\ \A s \in Sessions : (~logged_in[s] /\ ev'.s = s) => ev'.op = "login"]_vars
\* the participant dashboard run by a participant who could log in only
\* after the admin had set a password for them
C13_Witness ==
    /\ ev.op = "participant_view" /\ ev.s = "A"
    /\ logged_in["A"] /\ user_role["A"] = "participant" /\ user_email["A"] = "bob@x.com"

\* C12: a login attempt that presents the admin credential is settled by
\* the admin check alone: the session becomes role "admin", no worksheet is
\* resolved or created, no get_cached_sheet_data call is made and the
\* session's maps are left as they were; the participant check (one cached
\* read of the resolved Participants_list) is made exactly when the admin
\* check has failed.
C12_AdminCheckFirst ==
    [][(ev'.op = "login") =>
          IF ev'.auth[1].email = ADMIN_EMAIL /\ ev'.auth[1].password = ADMIN_PASSWORD
          THEN /\ ev'.auth[1].role = "admin" /\ ev'.auth[1].ok /\ Len(ev'.auth) = 1
               /\ logged_in'[ev'.s] /\ user_role'[ev'.s] = "admin"
               /\ ev'.calls = <<>>
               /\ sheet' = sheet
               /\ sheet_data_cache' = sheet_data_cache /\ last_sheet_refresh' = last_sheet_refresh
          ELSE /\ ev'.auth[1].role = "participant" /\ Len(ev'.auth) = 1
               /\ Len(ev'.calls) = 1 /\ ev'.calls[1].t = "Participants_list"
               /\ "Participants_list" \in DOMAIN sheet'
               /\ user_role'[ev'.s] # "admin"]_vars
\* an admin login on a spreadsheet that has no Participants_list worksheet:
\* the worksheet is still absent afterwards
C12_Witness ==
    /\ ev.op = "login" /\ ev.auth[1].role = "admin" /\ ev.auth[1].ok
    /\ user_role[ev.s] = "admin"
    /\ "Participants_list" \notin DOMAIN sheet

\* C14: get_sheet(name) for a name that has no worksheet adds that worksheet
\* with exactly one row, the header list prescribed for the name (for Teams
\* <<"TeamName", "Description">>), and changes no other worksheet; a
\* worksheet that appears in any step has been created that way.
C14_ResolverCreates ==
    [][/\ (ev'.op = "get_sheet" /\ ev'.muts[1].t \notin DOMAIN sheet) =>
              /\ DOMAIN sheet' = DOMAIN sheet \cup {ev'.muts[1].t}
              /\ \A u \in DOMAIN sheet : sheet'[u] = sheet[u]
       /\ \A t \in DOMAIN sheet' \ DOMAIN sheet :
              /\ sheet'[t] = <<Headers(t)>>
              /\ (t = "Teams") => sheet'[t] = << <<"TeamName", "Description">> >>]_vars
\* the Teams worksheet just created by a resolve
C14_Witness ==
    /\ ev.op = "get_sheet" /\ ev.muts[1].t = "Teams" /\ ev.wrote
    /\ sheet["Teams"] = << <<"TeamName", "Description">> >>
    /\ "Likes" \notin DOMAIN sheet

\* C15: get_sheet(name) on an existing worksheet other than Participants_list
\* leaves its first row equal to the prescribed header list; when the first
\* row was already equal nothing is written; when it differed the worksheet
\* holds the header row and nothing else.  No other worksheet changes.
C15_ResolverNormalises ==
    [][(ev'.op = "get_sheet" /\ ev'.muts[1].t \in DOMAIN sheet /\ ev'.muts[1].t # "Participants_list") =>
          /\ DOMAIN sheet' = DOMAIN sheet
          /\ \A u \in DOMAIN sheet \ {ev'.muts[1].t} : sheet'[u] = sheet[u]
          /\ Len(sheet'[ev'.muts[1].t]) >= 1
          /\ sheet'[ev'.muts[1].t][1] = Headers(ev'.muts[1].t)
          /\ IF Len(sheet[ev'.muts[1].t]) >= 1 /\ sheet[ev'.muts[1].t][1] = Headers(ev'.muts[1].t)
             THEN sheet' = sheet /\ ~ev'.wrote
             ELSE sheet'[ev'.muts[1].t] = <<Headers(ev'.muts[1].t)>>]_vars
\* a worksheet with other headers and a data row, reduced to its header row
C15_Witness ==
    /\ ev.op = "get_sheet" /\ ev.muts[1].t = "Likes" /\ ev.wrote
    /\ sheet["Likes"] = << <<"UpdateID", "Email">> >>
    /\ "Teams" \in DOMAIN sheet /\ Len(sheet["Teams"]) = 2 /\ sheet["Teams"][1] # Headers("Teams")

\* C16: resolving Participants_list when the worksheet exists changes
\* nothing in the spreadsheet, whatever its header row is; this holds for
\* the dashboards' get_sheet calls and for the one made by a login attempt.
C16_ParticipantsNeverNormalised ==
    [][/\ (ev'.op = "get_sheet" /\ ev'.muts[1].t = "Participants_list"
           /\ "Participants_list" \in DOMAIN sheet) => (sheet' = sheet /\ ~ev'.wrote)
       /\ (ev'.op = "login" /\ "Participants_list" \in DOMAIN sheet) => sheet' = sheet]_vars
\* a resolve of a Participants_list whose header row is not the prescribed
\* one and which holds data rows
C16_Witness ==
    /\ ev.op = "get_sheet" /\ ev.muts[1].t = "Participants_list" /\ ~ev.wrote
    /\ Len(sheet["Participants_list"]) = 3
    /\ sheet["Participants_list"][1] # Headers("Participants_list")

\* the notify_participant calls of the last step
Mails == Range(ev.mail)

\* C19: no notify_participant call raises; each returns a boolean, True
\* exactly when one message was handed to the mail provider and the provider
\* completed the send without error; in particular False for an unknown
\* kind and for a project_assignment without project name.
C19_NotifyNeverRaises ==
    \A n \in Mails :
        /\ ~n.raised
        /\ n.ok \in BOOLEAN
        /\ n.ok <=> (Len(n.sends) = 1 /\ n.y = "ok")
        /\ (n.kind \notin {"team_assignment", "project_assignment", "password_reset"}) => ~n.ok
        /\ (n.kind = "project_assignment" /\ n.project \in {"", " "}) => ~n.ok
\* a call whose send failed at the mail provider: False returned, nothing raised
C19_Witness ==
    \E n \in Mails :
        n.kind = "password_reset" /\ n.gmail = "ok" /\ n.y = "fail"
        /\ Len(n.sends) = 1 /\ ~n.ok /\ ~n.raised

\* C20: a notify_participant call makes at most one send attempt, to the
\* email it was given: exactly one when the kind is team_assignment,
\* password_reset or project_assignment with a project name and the sender
\* configuration is present, none otherwise; a failed send is not repeated.
C20_NotifySingleAttempt ==
    \A n \in Mails :
        /\ Len(n.sends) <= 1
        /\ \A i \in 1..Len(n.sends) : n.sends[i] = n.to
        /\ (Len(n.sends) = 1) <=>
              /\ n.gmail = "ok"
              /\ \/ n.kind \in {"team_assignment", "password_reset"}
                 \/ (n.kind = "project_assignment" /\ n.project \notin {"", " "})
\* a project_assignment whose single send failed
C20_Witness ==
    \E n \in Mails :
        n.kind = "project_assignment" /\ n.project = "P1" /\ n.gmail = "ok" /\ n.y = "fail"
        /\ n.sends = <<n.to>> /\ ~n.ok


\* C17 (as stated; refuted): when the admin assigns a team, the Team cell of
\* the row of every selected participant (a participant without a team whose
\* Display Name was picked) holds the team once the write has succeeded, and
\* the notification attempts are exactly one per selected participant, of
\* kind team_assignment, addressed to that participant's email.
C17_AssignTeams ==
    ev.op = "assign_teams" =>
        \A i \in 1..Len(ev.muts) :
            LET m == ev.muts[i]
                emails == {Get(m.snapshot[j], "Email") :
                             j \in {k \in 1..Len(m.snapshot) :
                                      /\ Get(m.snapshot[k], "Display Name") \in m.selected
                                      /\ Get(m.snapshot[k], "Team") = ""}}
                ws == sheet["Participants_list"]
            IN /\ Len(ev.mail) = Cardinality(emails)
               /\ \A e \in emails : Cardinality({n \in 1..Len(ev.mail) : ev.mail[n].to = e}) = 1
               /\ \A n \in 1..Len(ev.mail) :
                     ev.mail[n].kind = "team_assignment" /\ ev.mail[n].to \in emails
               /\ ~m.raised =>
                     \A k \in 2..Len(ws) :
                        (Len(ws[k]) >= 2 /\ ws[k][2] \in emails) =>
                            (Len(ws[k]) >= 20 /\ ws[k][20] = m.team)

\* C18 (as stated; refuted): a signup does not raise; when its append
\* succeeds the participants worksheet is the old one with exactly one row
\* added at the end (Name first, Email second, 'Pending' last, in the Status
\* column) and every other worksheet is as before; when the append fails
\* nothing is written.
C18_SignupAppends ==
    [][ev'.op = "signup" =>
        \A i \in 1..Len(ev'.muts) :
            LET m == ev'.muts[i]
            IN /\ ~m.raised
               /\ m.row[1] = m.name /\ Headers("Participants_list")[1] = "Name"
               /\ m.row[2] = m.email /\ Headers("Participants_list")[2] = "Email"
               /\ m.row[Len(m.row)] = "Pending"
               /\ Headers("Participants_list")[Len(m.row)] = "Status"
               /\ sheet' = IF ev'.wrote
                           THEN [sheet EXCEPT !["Participants_list"] = Append(@, m.row)]
                           ELSE sheet]_vars


\* C30 (as stated; refuted): the Teams table never holds two rows with the
\* same TeamName, whatever Create Team submissions one session or two
\* sessions have made.
C30_TeamNamesUnique ==
    \A i, j \in 2..Len(sheet["Teams"]) :
        (Cell(sheet["Teams"][i], 1) = Cell(sheet["Teams"][j], 1)) => i = j

\* C25 (as stated; refuted): after any team creations, deletions and
\* assignments by one session or by two, the non-empty Team of every
\* Participants row is the TeamName of a row of the Teams table.
C25_TeamOfParticipantExists ==
    \A d \in Range(get_all_records(sheet["Participants_list"])) :
        GetOr(d, "Team", "") # "" =>
            GetOr(d, "Team", "") \in available_teams(get_all_records(sheet["Teams"]))

\* C27 (as stated; refuted): a team assignment or a team deletion leaves the
\* Participants worksheet with the same header row, the same number of rows
\* and of cells in each row, and the same value in every cell that is not
\* in the Team column.
C27_RewriteFrame ==
    [][ev'.op \in {"assign_teams", "delete_team"} =>
        LET old == sheet["Participants_list"]
            new == sheet'["Participants_list"]
        IN /\ Len(new) = Len(old)
           /\ new[1] = old[1]
           /\ \A i \in 2..Len(old) :
                 /\ Len(new[i]) = Len(old[i])
                 /\ \A j \in 1..Len(old[i]) :
                       new[i][j] # old[i][j] => Cell(old[1], j) = "Team"]_vars

\* C28: a get_cached_sheet_data call whose remote read fails leaves both maps
\* of the session as they were, whether it falls back to the snapshot or
\* raises, so the session still holds no valid snapshot of that table and its
\* next read of the table goes to the spreadsheet again; and the two maps of
\* a session always have the same table names as keys.
C28_FailedReadKeepsCache ==
    /\ \A s \in Sessions : DOMAIN sheet_data_cache[s] = DOMAIN last_sheet_refresh[s]
    /\ \A c \in Calls :
          (c.reads = 1 /\ c.o # "ok") =>
              /\ c.kept
              /\ ~CacheValid(sheet_data_cache[ev.s], last_sheet_refresh[ev.s], c.t, now)
\* one run in which a failed read was answered from an expired snapshot and
\* another failed read, of a table without snapshot, raised
C28_Witness ==
    /\ \E c \in Calls : c.reads = 1 /\ c.o # "ok" /\ c.had /\ c.gotPrev
    /\ \E c \in Calls : c.reads = 1 /\ c.o # "ok" /\ ~c.had /\ c.raised
    /\ DOMAIN sheet_data_cache[ev.s] # {}

\* C29 (as stated; refuted): a password change writes the new hash only when
\* the current password given verifies against the hash stored for the
\* participant in the Participants table at that moment, and else returns
\* False and writes nothing; a reset for an email that is not in the table
\* returns False and writes nothing; a call that succeeds changes nothing but
\* the PasswordHash cell of the row with the email.
C29_CredentialWritesGuarded ==
    [][LET old == sheet["Participants_list"]
           new == sheet'["Participants_list"]
           data == get_all_records(old)
       IN /\ \A p \in Passwords :
                /\ ~reset_participant_password(old, "nobody@x.com", p, "ok").ok
                /\ reset_participant_password(old, "nobody@x.com", p, "ok").ws = old
          /\ (ev'.op = "change_password" /\ ev'.auth # <<>>) =>
                LET k == First(data, "Email", ev'.auth[1].email)
                    verifies == /\ k >= 0
                                /\ GetOr(data[k + 1], "PasswordHash", "") # ""
                                /\ check_password_hash(GetOr(data[k + 1], "PasswordHash", ""),
                                                       ev'.auth[1].password)
                IN /\ ev'.auth[2].ok => verifies
                   /\ ~ev'.auth[2].ok => new = old
                   /\ ev'.auth[2].ok =>
                         /\ Len(new) = Len(old)
                         /\ \A i \in 1..Len(old) :
                               /\ Len(new[i]) = Len(old[i])
                               /\ \A j \in 1..Len(old[i]) :
                                     new[i][j] # old[i][j] =>
                                         i = k + 2 /\ old[1][j] = "PasswordHash"]_vars

\* C23: validate_secrets returns the empty list exactly when each of the
\* sections admin, gmail, gspread and google is present with all its
\* required keys; and a run of main() at startup that finds the configuration
\* incomplete shows the checklist only: no login page, no dashboard, no
\* credential check, no spreadsheet read or write and no mail.
C23_ConfigurationGate ==
    \A r \in Range(ev.run) :
        LET complete == \A i \in 1..Len(required_configs) :
                            /\ required_configs[i][1] \in DOMAIN r.secrets
                            /\ Range(required_configs[i][2]) \subseteq r.secrets[required_configs[i][1]]
        IN /\ (validate_secrets(r.secrets) = <<>>) <=> complete
           /\ ~complete =>
                 /\ ev.op = "config"
                 /\ ev.calls = <<>> /\ ev.auth = <<>> /\ ev.mail = <<>> /\ ev.muts = <<>>
                 /\ ~ev.wrote
                 /\ ~logged_in[ev.s]
\* a run stopped at the checklist because one key of a present section is
\* missing, in a session that had logged in and out before
C23_Witness ==
    /\ ev.op = "config"
    /\ \E r \in Range(ev.run) :
          /\ DOMAIN r.secrets = {"admin", "gmail", "gspread", "google"}
          /\ "token_uri" \notin r.secrets["gspread"]
    /\ sheet_data_cache[ev.s] # EmptyDict

\* The fields of a submitted form that the form's checks must turn down
FieldsInvalid(op, f) ==
    CASE op = "create_team" -> f[1] = "" \/ f[2] = ""
      [] op = "create_project" -> f[1] = "" \/ f[2] = "" \/ f[3] = ""
      [] op = "reset_password" -> f[1] = "" \/ f[2] = "" \/ f[1] # f[2] \/ StrLen(f[1]) < 6
      [] op = "change_password" ->
            f[1] = "" \/ f[2] = "" \/ f[3] = "" \/ f[2] # f[3] \/ StrLen(f[2]) < 6
      [] OTHER -> FALSE
Submitted == {r \in Range(ev.run) : "fields" \in DOMAIN r}

\* C22: a create-team form with an empty name or description, a
\* create-project form with an empty name, description or team, and a
\* password reset or change form with an empty field, a confirmation that
\* differs or a new password shorter than 6 characters leave every worksheet
\* of the spreadsheet as it was.
C22_ValidationPrecedesWrites ==
    [][\A r \in Range(ev'.run) :
          ("fields" \in DOMAIN r /\ FieldsInvalid(ev'.op, r.fields)) => sheet' = sheet]_vars
\* a password reset with a confirmation that differs was turned down after
\* the spreadsheet had been written by an accepted form
C22_Witness ==
    /\ ev.op = "reset_password"
    /\ \E r \in Submitted : r.fields[1] = "secret1" /\ r.fields[2] = "secret2"
    /\ ~ev.wrote
    /\ used > 0

\* C24: the Projects row appended by a project creation holds the selected
\* team in the column headed AssignedTeam, so that the participant view's
\* lookup projects_df["AssignedTeam"] == T finds the project of team T.
C24_ProjectRowNamesTeam ==
    (ev.op = "create_project" /\ ev.wrote) =>
        \A r \in Submitted :
            /\ Get(get_all_records(sheet["Projects"])[Len(sheet["Projects"]) - 1], "AssignedTeam")
                  = r.fields[3]
            /\ \E n \in 1..Len(project_info(get_all_records(sheet["Projects"]), r.fields[3])) :
                  Get(project_info(get_all_records(sheet["Projects"]), r.fields[3])[n], "ProjectName")
                     = r.fields[1]

\* C26: no two rows of Updates share an UpdateID, also when a participant
\* submits two updates within one clock second.
C26_UpdateIdsUnique ==
    \A i, j \in 2..Len(sheet["Updates"]) :
        i # j => sheet["Updates"][i][1] # sheet["Updates"][j][1]

\* The members a batch is for: the unassigned participants picked in a team
\* assignment, the participants of the team otherwise.
BatchMembers(op, b) ==
    SelectSeq(b.snapshot,
              LAMBDA d : IF op = "assign_teams"
                         THEN Get(d, "Display Name") \in b.selected /\ Get(d, "Team") = ""
                         ELSE Get(d, "Team") = b.team)
BatchesRun == {r.batch : r \in {q \in Range(ev.run) : "batch" \in DOMAIN q}}

\* C21: a batch of notifications (project creation, Send Notification, team
\* assignment) over n members makes n notify_participant calls, one to each
\* member whatever the earlier calls returned, and the lists of notified and
\* of failed names are disjoint and together hold all n members.
C21_BatchReachesEveryMember ==
    \A b \in BatchesRun :
        LET members == BatchMembers(ev.op, b)
        IN /\ Len(ev.mail) = Len(members)
           /\ \A i \in 1..Len(members) :
                 Cardinality({n \in 1..Len(ev.mail) : ev.mail[n].to = Get(members[i], "Email")}) = 1
           /\ Range(b.sent) \cap Range(b.failed) = {}
           /\ Len(b.sent) + Len(b.failed) = Len(members)
           /\ \A i \in 1..Len(members) :
                 Get(members[i], "Display Name") \in Range(b.sent) \cup Range(b.failed)

====
